---- MODULE Spec2Model ----
(***************************************************************************)
(* Verification model of the Etsy -> sevDesk synchronisation core:         *)
(*   - app/core/idempotency.py  (key generation, IdempotencyStore,         *)
(*     the `idempotent` decorator, the IdempotentOperation scope)          *)
(*   - app/clients/base.py      (BaseAPIClient: rate limiter, request)     *)
(*   - app/core/currency.py     (rounding, net / gross / tax amounts)      *)
(* Each part has its own specification (SpecKey, SpecIdem, SpecStore,      *)
(* SpecHttp, SpecRate, SpecCurrency, ...); the variables of the other      *)
(* parts stay at their initial values.                                     *)
(***************************************************************************)
EXTENDS Integers, Sequences, FiniteSets, TLC

VARIABLES
    \* ---- generate_idempotency_key (one call) ----
    key_call,          \* [prefix, args, kwargs] of the call
    key_out,           \* the key the call returned, or NoKey
    \* ---- IdempotencyStore / idempotent / IdempotentOperation ----
    clock,             \* app.core.time.now(), in hours
    store,             \* IdempotencyStore._store: key -> (stored_time, result)
    ops,               \* IdempotentOperation scopes: attempt id -> scope state
    exec_log,          \* per key: the clock readings at which the side effect ran
    last_call,         \* what the last `idempotent`-wrapped call met and did
    api,               \* the last call of an IdempotencyStore method, as observed
    last_set,          \* per key: the latest set(key, result) not followed by delete(key)
    thr,               \* threads inside IdempotencyStore methods: thread -> position
    \* ---- app/core/currency.py (one call) ----
    cur,               \* the call of a rounding / tax function and its result
    \* ---- app/core/currency.py: exchange rates ----
    fx,                \* settings, the _provider global, now(), the last call
    \* ---- SevdeskClient ----
    sev,               \* settings.dry_run, the requests sent, the last operation
    \* ---- EtsyClient.paginate_all ----
    pg,                \* the call in progress: its arguments, position and list
    \* ---- SevDeskCSVExporter.export_invoices (one call) ----
    csv,               \* the order exported and the rows written
    \* ---- BaseAPIClient ----
    loop_time,         \* asyncio.get_event_loop().time(), in ticks
    last_request_time, \* BaseAPIClient._last_request_time, in ticks
    req,               \* the BaseAPIClient.request call in progress
    calls,             \* request calls started so far
    rl,                \* callers of _rate_limit_wait: task -> position
    grants             \* loop times at which _rate_limit_wait returned

keyVars    == <<key_call, key_out>>
idemVars   == <<clock, store, ops, exec_log, last_call>>
timeVars   == <<loop_time, last_request_time>>
httpVars   == <<req, calls>>
rateVars   == <<rl, grants>>
apiVars    == <<api, last_set, thr>>
curVars    == <<cur>>
fxVars     == <<fx>>
appVars    == <<sev, pg, csv>>

\* What the actions of one part leave alone.
exceptKey  == <<idemVars, timeVars, httpVars, rateVars, apiVars, curVars, fxVars, appVars>>
exceptIdem == <<keyVars, timeVars, httpVars, rateVars, apiVars, curVars, fxVars, appVars>>
exceptHttp == <<keyVars, idemVars, rateVars, apiVars, curVars, fxVars, appVars>>
exceptRate == <<keyVars, idemVars, httpVars, apiVars, curVars, fxVars, appVars>>
exceptApi  == <<keyVars, ops, exec_log, last_call, timeVars, httpVars, rateVars, curVars, fxVars, appVars>>
exceptCur  == <<keyVars, idemVars, timeVars, httpVars, rateVars, apiVars, fxVars, appVars>>
exceptFx   == <<keyVars, idemVars, timeVars, httpVars, rateVars, apiVars, curVars, appVars>>
coreVars   == <<keyVars, idemVars, timeVars, httpVars, rateVars, apiVars, curVars, fxVars>>
exceptSev  == <<coreVars, pg, csv>>
exceptPg   == <<coreVars, sev, csv>>
exceptCsv  == <<coreVars, sev, pg>>

----------------------------------------------------------------------------
(* Python's None, and the key slot of a call that has not returned yet.     *)
None  == <<"None">>
NoKey == <<>>

----------------------------------------------------------------------------
(***************************************************************************)
(* generate_idempotency_key                                                *)
(***************************************************************************)

\* Keyword names in the order json.dumps(sort_keys=True) puts them
\* (lexicographic order of the strings).
KwNames == <<"amount", "currency", "order_id">>

\* Argument values, as <<type, text>>: two strings and an integer.
ArgValues == { <<"str", "123">>, <<"str", "124">>, <<"int", "123">> }

Prefixes == {"create_invoice", "create_payment"}

MaxKwargs == 2

NameRank(name) == CHOOSE i \in 1..Len(KwNames) : KwNames[i] = name

\* kwargs as Python builds the dict: pairs <<name, value>> in call-site order,
\* no name twice.
KwargsOfLen(n) ==
    { kw \in [1..n -> {<<KwNames[i], v>> : i \in 1..Len(KwNames), v \in ArgValues}] :
        \A i, j \in 1..n : i # j => kw[i][1] # kw[j][1] }

AllKwargs == UNION { KwargsOfLen(n) : n \in 0..MaxKwargs }

AllArgs == { <<>>, << <<"str", "123">> >> }

\* The dict a kwargs sequence denotes (what the callee sees).
KwDict(kw) == { kw[i] : i \in 1..Len(kw) }

\* Insert a pair into a sequence sorted by name.
RECURSIVE InsertSorted(_, _)
InsertSorted(pair, sorted) ==
    IF sorted = <<>> THEN <<pair>>
    ELSE IF NameRank(pair[1]) <= NameRank(Head(sorted)[1])
         THEN <<pair>> \o sorted
         ELSE <<Head(sorted)>> \o InsertSorted(pair, Tail(sorted))

\* A variant that keeps the call-site order (json.dumps without sort_keys).
UnsortedItems(kw) == kw

\* The items of a dict as json.dumps(..., sort_keys=True) writes them.
RECURSIVE SortedItems(_)
SortedItems(kw) ==
    IF kw = <<>> THEN <<>>
    ELSE InsertSorted(Head(kw), SortedItems(Tail(kw)))

\* json.dumps of one value: a str is written between quotes, an int bare.
JsonValue(v) == IF v[1] = "int" THEN <<v[2]>> ELSE <<"\"", v[2], "\"">>

JsonItems(items) == [i \in 1..Len(items) |-> <<items[i][1], JsonValue(items[i][2])>>]

\* json.dumps(key_data, sort_keys=True, default=str): the top-level keys come
\* out as "args", "kwargs", "prefix"; the args tuple becomes a JSON list.
JsonDumps(prefix, args, kwargs) ==
    << <<"args", [i \in 1..Len(args) |-> JsonValue(args[i])]>>,
       <<"kwargs", JsonItems(SortedItems(kwargs))>>,
       <<"prefix", JsonValue(<<"str", prefix>>)>> >>

\* hashlib.sha256(json_str.encode()).hexdigest()[:16]: the digest is kept
\* symbolic, as the 16-hex-digit prefix of the SHA-256 of its preimage
\* (distinct preimages are taken to have distinct prefixes).
Sha256Hex(json_str, ndigits) == [sha256_of |-> json_str, hexdigits |-> ndigits]

\* f"{prefix}:{hash_digest[:16]}"
generate_idempotency_key(prefix, args, kwargs) ==
    <<prefix, ":", Sha256Hex(JsonDumps(prefix, args, kwargs), 16)>>

\* The key generator at rest (the other specifications leave it here).
KeyIdle ==
    /\ key_call = [prefix |-> "create_invoice", args |-> <<>>, kwargs |-> <<>>]
    /\ key_out = NoKey

\* One call site: any prefix, positional arguments and keyword arguments.
KeyInit ==
    /\ key_call \in [prefix : Prefixes, args : AllArgs, kwargs : AllKwargs]
    /\ key_out = NoKey

CallGenerateKey ==
    /\ key_out = NoKey
    /\ key_out' = generate_idempotency_key(key_call.prefix, key_call.args, key_call.kwargs)
    /\ UNCHANGED key_call
    /\ UNCHANGED exceptKey

----------------------------------------------------------------------------
(***************************************************************************)
(* IdempotencyStore                                                        *)
(***************************************************************************)

\* IdempotencyStore.__init__(ttl_hours=24); the global store uses the default.
ttl_hours == 24

\* The clock moves in steps of ClockStep hours up to MaxClock.
ClockStep == 12
MaxClock  == 36

\* The idempotency keys of two logical operations, create_invoice for order
\* 123 and for order 124, written prefix:digest.
Keys == {"create_invoice:h123", "create_invoice:h124"}

\* Side effects per key the model follows.
MaxExecutions == 2

\* What a side effect returns: None (a function without a result) or the
\* identifier of the document it created (the n-th execution creates n).
Doc(n) == <<"doc", n>>
Results == {None} \cup { Doc(n) : n \in 1..MaxExecutions }

\* A variant that expires an entry as soon as its age reaches the TTL.
ExpiredAtTtl(stored_time, now) == now - stored_time >= ttl_hours

\* An entry older than the TTL: now() - stored_time > timedelta(hours=ttl_hours)
Expired(stored_time, now) == now - stored_time > ttl_hours

\* IdempotencyStore.get: the value returned ...
StoreGetResult(st, key, now) ==
    IF key \notin DOMAIN st THEN None
    ELSE IF Expired(st[key].stored_time, now) THEN None
    ELSE st[key].result

\* ... and the store it leaves (an expired entry is deleted).
StoreGetStore(st, key, now) ==
    IF key \in DOMAIN st /\ Expired(st[key].stored_time, now)
    THEN [k \in DOMAIN st \ {key} |-> st[k]]
    ELSE st

\* A variant of set that keeps the time stamp of an entry it overwrites.
StoreSetKeepStamp(st, key, result, now) ==
    [k \in DOMAIN st \cup {key} |->
        IF k = key
        THEN [stored_time |-> IF key \in DOMAIN st THEN st[key].stored_time ELSE now,
              result |-> result]
        ELSE st[k]]

\* IdempotencyStore.set
StoreSet(st, key, result, now) ==
    [k \in DOMAIN st \cup {key} |->
        IF k = key THEN [stored_time |-> now, result |-> result] ELSE st[k]]

\* The store holds an unexpired entry for key (whatever its value is).
LiveEntry(st, key, now) == key \in DOMAIN st /\ ~Expired(st[key].stored_time, now)

----------------------------------------------------------------------------
(***************************************************************************)
(* IdempotentOperation: one scope per attempt of the caller                *)
(*     with IdempotentOperation(prefix, ...) as op:                        *)
(*         if op.should_execute():                                         *)
(*             result = side_effect(); op.store_result(result)             *)
(*         else:                                                           *)
(*             result = op.get_cached_result()                             *)
(***************************************************************************)

\* Attempts (scopes) that may be open at once.
NumScopes == 2
Scopes == 1..NumScopes

\* The logical operation the scopes are attempts of:
\* IdempotentOperation("create_invoice", order_id="123").
OpKey == "create_invoice:h123"

\* A scope that is not open.
NoScope == [pc |-> "none", key |-> OpKey, cached_result |-> None,
            result |-> None, entry_live |-> FALSE, entry_value |-> None,
            got |-> "none", got_at |-> "none", got_value |-> None]

\* A variant that asks the store again on every call.
ShouldExecuteFromStore(op) == StoreGetResult(store, op.key, clock) = None

\* A variant that remembers that the scope has stored a result.
ShouldExecuteUnlessStored(op) == op.cached_result = None /\ op.pc # "stored"

\* IdempotentOperation.should_execute
should_execute(op) == op.cached_result = None

\* The result of the next execution of the side effect for key: nothing, or
\* the document it creates.
NextResults(log, key) == {None, Doc(Len(log[key]) + 1)}

\* No wrapped call made yet; the function was decorated with
\* idempotent(ttl_hours=h).
NoWrappedCall(h) ==
    [called |-> FALSE, key |-> OpKey, ttl_hours |-> h, had_entry |-> FALSE,
     entry_value |-> None, executed |-> FALSE, raised |-> FALSE, returned |-> None]

\* The values of ttl_hours functions are decorated with.
DecoratorTtls == {12, 24, 48}

\* As IdemInitial, for a function decorated with any of these values.
DecoratedInitial ==
    /\ clock = 0
    /\ store = <<>>
    /\ ops = [s \in Scopes |-> NoScope]
    /\ exec_log = [k \in Keys |-> <<>>]
    /\ \E h \in DecoratorTtls : last_call = NoWrappedCall(h)

IdemInitial ==
    /\ clock = 0
    /\ store = <<>>
    /\ ops = [s \in Scopes |-> NoScope]
    /\ exec_log = [k \in Keys |-> <<>>]
    /\ last_call = NoWrappedCall(ttl_hours)

\* now() advances.
Tick ==
    /\ clock + ClockStep <= MaxClock
    /\ clock' = clock + ClockStep
    /\ UNCHANGED <<store, ops, exec_log, last_call>>
    /\ UNCHANGED exceptIdem

\* What the store holds for key, read directly from the map: the value of an
\* unexpired entry, None when there is none.
LiveValue(st, key, now) == IF LiveEntry(st, key, now) THEN st[key].result ELSE None

\* __init__ and __enter__: the key is generated, the store is read once.
\* entry_live and entry_value record what the store held at that time.
Enter(s) ==
    /\ ops[s].pc = "none"
    /\ ops' = [ops EXCEPT ![s] = [pc |-> "entered", key |-> OpKey,
                                  cached_result |-> StoreGetResult(store, OpKey, clock),
                                  result |-> None,
                                  entry_live |-> LiveEntry(store, OpKey, clock),
                                  entry_value |-> LiveValue(store, OpKey, clock),
                                  got |-> "none", got_at |-> "none",
                                  got_value |-> None]]
    /\ store' = StoreGetStore(store, OpKey, clock)
    /\ UNCHANGED <<clock, exec_log, last_call>>
    /\ UNCHANGED exceptIdem

\* A retry: a new attempt starts when no other attempt is running.
EnterRetry(s) ==
    /\ \A t \in Scopes : ops[t].pc = "none"
    /\ Enter(s)

\* The caller's branch `if op.should_execute():` runs the side effect.
Execute(s, r) ==
    /\ ops[s].pc = "entered"
    /\ should_execute(ops[s])
    /\ Len(exec_log[ops[s].key]) < MaxExecutions
    /\ r \in NextResults(exec_log, ops[s].key)
    /\ exec_log' = [exec_log EXCEPT ![ops[s].key] = Append(@, clock)]
    /\ ops' = [ops EXCEPT ![s].pc = "executed", ![s].result = r]
    /\ UNCHANGED <<clock, store, last_call>>
    /\ UNCHANGED exceptIdem

\* IdempotentOperation.store_result(result)
StoreResult(s) ==
    /\ ops[s].pc = "executed"
    /\ store' = StoreSet(store, ops[s].key, ops[s].result, clock)
    /\ ops' = [ops EXCEPT ![s].pc = "stored", ![s].cached_result = ops[s].result]
    /\ UNCHANGED <<clock, exec_log, last_call>>
    /\ UNCHANGED exceptIdem

\* The caller's else branch: IdempotentOperation.get_cached_result()
\* (cached_result is not None there, so it does not raise).
GetCachedResult(s) ==
    /\ ops[s].pc = "entered"
    /\ ~should_execute(ops[s])
    /\ ops' = [ops EXCEPT ![s].pc = "cached", ![s].result = ops[s].cached_result]
    /\ UNCHANGED <<clock, store, exec_log, last_call>>
    /\ UNCHANGED exceptIdem

\* IdempotentOperation.get_cached_result() called anywhere in the scope: it
\* raises IdempotencyError when cached_result is None, else returns it.
\* got, got_at and got_value record what the first such call of the scope
\* did and where in the scope it was made.
CallGetCachedResult(s) ==
    /\ ops[s].pc \in {"entered", "executed", "stored"}
    /\ ops[s].got = "none"
    /\ ops' = [ops EXCEPT ![s] =
                  IF ops[s].cached_result = None
                  THEN [@ EXCEPT !.got = "raised", !.got_at = ops[s].pc]
                  ELSE [@ EXCEPT !.got = "returned", !.got_at = ops[s].pc,
                                 !.got_value = ops[s].cached_result]]
    /\ UNCHANGED <<clock, store, exec_log, last_call>>
    /\ UNCHANGED exceptIdem

\* __exit__ does nothing; the attempt is over and a retry may start.
Exit(s) ==
    /\ ops[s].pc \in {"stored", "cached"}
    /\ ops' = [ops EXCEPT ![s] = NoScope]
    /\ UNCHANGED <<clock, store, exec_log, last_call>>
    /\ UNCHANGED exceptIdem

\* The attempt dies (process crash, exception, cancellation) anywhere inside
\* the scope: nothing is written, the scope object is gone.
Crash(s) ==
    /\ ops[s].pc \in {"entered", "executed"}
    /\ ops' = [ops EXCEPT ![s] = NoScope]
    /\ UNCHANGED <<clock, store, exec_log, last_call>>
    /\ UNCHANGED exceptIdem

----------------------------------------------------------------------------
(***************************************************************************)
(* idempotent(...)(func): one call of the wrapper, which is synchronous    *)
(***************************************************************************)

\* A variant that stores in a finally clause: a failure of func leaves an
\* entry under the key.
WrappedCallFinally(key, r, raises) ==
    LET cached == StoreGetResult(store, key, clock)
        st1    == StoreGetStore(store, key, clock)
        seen   == [called |-> TRUE, key |-> key, ttl_hours |-> last_call.ttl_hours,
                   had_entry |-> LiveEntry(store, key, clock),
                   entry_value |-> LiveValue(store, key, clock)]
    IN  IF cached # None
        THEN /\ r = None /\ ~raises
             /\ last_call' = seen @@ [executed |-> FALSE, raised |-> FALSE,
                                      returned |-> cached]
             /\ store' = st1
             /\ UNCHANGED <<clock, ops, exec_log, exceptIdem>>
        ELSE /\ Len(exec_log[key]) < MaxExecutions
             /\ r \in NextResults(exec_log, key)
             /\ exec_log' = [exec_log EXCEPT ![key] = Append(@, clock)]
             /\ raises => r = None
             /\ store' = StoreSet(st1, key, r, clock)
             /\ last_call' = seen @@ [executed |-> TRUE, raised |-> raises,
                                      returned |-> r]
             /\ UNCHANGED <<clock, ops, exceptIdem>>

\* func returns r, or raises (raises = TRUE).
WrappedCall(key, r, raises) ==
    LET cached == StoreGetResult(store, key, clock)
        st1    == StoreGetStore(store, key, clock)
        seen   == [called |-> TRUE, key |-> key, ttl_hours |-> last_call.ttl_hours,
                   had_entry |-> LiveEntry(store, key, clock),
                   entry_value |-> LiveValue(store, key, clock)]
    IN  IF cached # None
        THEN \* return cached_result
             /\ r = None /\ ~raises
             /\ last_call' = seen @@ [executed |-> FALSE, raised |-> FALSE,
                                      returned |-> cached]
             /\ store' = st1
             /\ UNCHANGED <<clock, ops, exec_log, exceptIdem>>
        ELSE \* result = func(*args, **kwargs); store.set(key, result)
             /\ Len(exec_log[key]) < MaxExecutions
             /\ r \in NextResults(exec_log, key)
             /\ exec_log' = [exec_log EXCEPT ![key] = Append(@, clock)]
             /\ IF raises
                THEN /\ r = None
                     /\ store' = st1
                     /\ last_call' = seen @@ [executed |-> TRUE, raised |-> TRUE,
                                              returned |-> None]
                ELSE /\ store' = StoreSet(st1, key, r, clock)
                     /\ last_call' = seen @@ [executed |-> TRUE, raised |-> FALSE,
                                              returned |-> r]
             /\ UNCHANGED <<clock, ops, exceptIdem>>

IdemNext ==
    \/ Tick
    \/ \E s \in Scopes : Enter(s)
    \/ \E s \in Scopes, r \in Results : Execute(s, r)
    \/ \E s \in Scopes : StoreResult(s)
    \/ \E s \in Scopes : GetCachedResult(s)
    \/ \E s \in Scopes : Exit(s)
    \/ \E s \in Scopes : Crash(s)

\* Attempts of the scope pattern one after the other (retries).
RetryNext ==
    \/ Tick
    \/ \E s \in Scopes : EnterRetry(s)
    \/ \E s \in Scopes, r \in Results : Execute(s, r)
    \/ \E s \in Scopes : StoreResult(s)
    \/ \E s \in Scopes : GetCachedResult(s)
    \/ \E s \in Scopes : Exit(s)
    \/ \E s \in Scopes : Crash(s)

\* Attempts one after the other whose bodies may call get_cached_result at
\* any point.
ScopeNext ==
    \/ RetryNext
    \/ \E s \in Scopes : CallGetCachedResult(s)

\* A wrapped call made while no scope is open.
WrappedCallSeq(key, r, raises) ==
    /\ \A t \in Scopes : ops[t].pc = "none"
    /\ WrappedCall(key, r, raises)

\* Invocations one after the other, of either kind.
InvokeNext ==
    \/ RetryNext
    \/ \E k \in Keys, r \in Results, raises \in BOOLEAN : WrappedCallSeq(k, r, raises)

\* Scopes whose bodies may call get_cached_result at any point, and wrapped
\* calls between them.
ScopeInvokeNext ==
    \/ ScopeNext
    \/ \E k \in Keys, r \in Results, raises \in BOOLEAN : WrappedCallSeq(k, r, raises)

\* Calls of wrapped functions only, as time passes.
WrappedNext ==
    \/ Tick
    \/ \E k \in Keys, r \in Results, raises \in BOOLEAN : WrappedCall(k, r, raises)

----------------------------------------------------------------------------
(***************************************************************************)
(* IdempotencyStore called directly: get, set, delete, cleanup_expired     *)
(***************************************************************************)

\* The results the direct calls store.
ApiResults == {None, Doc(1), Doc(2)}

\* IdempotencyStore.delete
StoreDelete(st, key) == [k \in DOMAIN st \ {key} |-> st[k]]

\* A variant of the sweep that takes every key.
AllKeys(st, now) == DOMAIN st

\* A variant of the sweep that also takes the entries exactly at the cutoff.
ExpiredKeysAtCutoff(st, now) ==
    LET cutoff == now - ttl_hours
    IN  { k \in DOMAIN st : st[k].stored_time <= cutoff }

\* cleanup_expired, lines 97-102: cutoff = now() - timedelta(hours=ttl_hours),
\* expired_keys = the keys whose stored_time < cutoff.
ExpiredKeys(st, now) ==
    LET cutoff == now - ttl_hours
    IN  { k \in DOMAIN st : st[k].stored_time < cutoff }

\* No call observed yet.
NoApiCall ==
    [op |-> "none", key |-> OpKey, value |-> None, returned |-> None,
     count |-> 0, at |-> 0, before |-> <<>>]

\* No set of the key to speak of.
NoSet == [set |-> FALSE, first |-> 0, at |-> 0, result |-> None, sets |-> 0]

\* Threads that call the store.
NumThreads == 2
Threads == 1..NumThreads

\* A thread outside the store. Inside a call: the position, the locals
\* (stored_time holds the cutoff during a sweep) and the error it raised.
IdleThread ==
    [pc |-> "idle", op |-> "none", key |-> OpKey, stored_time |-> 0,
     iter_size |-> 0, seen |-> {}, expired |-> {}, removed |-> 0,
     calls |-> 0, error |-> "none"]

ApiInitial ==
    /\ api = NoApiCall
    /\ last_set = [k \in Keys |-> NoSet]
    /\ thr = [t \in Threads |-> IdleThread]

\* store.set(key, result)
ApiSet(key, result) ==
    /\ store' = StoreSet(store, key, result, clock)
    /\ api' = [NoApiCall EXCEPT !.op = "set", !.key = key, !.value = result,
                                !.at = clock, !.before = store]
    /\ last_set' = [last_set EXCEPT ![key] =
                       [set |-> TRUE, first |-> IF @.set THEN @.first ELSE clock,
                        at |-> clock, result |-> result,
                        sets |-> IF @.sets < 2 THEN @.sets + 1 ELSE 2]]
    /\ UNCHANGED <<clock, thr>>
    /\ UNCHANGED exceptApi

\* store.get(key)
ApiGet(key) ==
    /\ store' = StoreGetStore(store, key, clock)
    /\ api' = [NoApiCall EXCEPT !.op = "get", !.key = key,
                                !.returned = StoreGetResult(store, key, clock),
                                !.at = clock, !.before = store]
    /\ UNCHANGED <<clock, last_set, thr>>
    /\ UNCHANGED exceptApi

\* store.delete(key)
ApiDelete(key) ==
    /\ store' = StoreDelete(store, key)
    /\ api' = [NoApiCall EXCEPT !.op = "delete", !.key = key,
                                !.at = clock, !.before = store]
    /\ last_set' = [last_set EXCEPT ![key] = NoSet]
    /\ UNCHANGED <<clock, thr>>
    /\ UNCHANGED exceptApi

\* store.cleanup_expired(), also reached through cleanup_expired_keys()
ApiCleanup ==
    LET expired_keys == ExpiredKeys(store, clock)
    IN  /\ store' = [k \in DOMAIN store \ expired_keys |-> store[k]]
        /\ api' = [NoApiCall EXCEPT !.op = "cleanup",
                                    !.count = Cardinality(expired_keys),
                                    !.at = clock, !.before = store]
        /\ UNCHANGED <<clock, last_set, thr>>
        /\ UNCHANGED exceptApi

\* Calls of the store one after the other, while time passes.
StoreNext ==
    \/ Tick
    \/ \E k \in Keys, r \in ApiResults : ApiSet(k, r)
    \/ \E k \in Keys : ApiGet(k)
    \/ \E k \in Keys : ApiDelete(k)
    \/ ApiCleanup

\* Concurrent attempts while entries are deleted from the store.
IdemDeleteNext ==
    \/ IdemNext
    \/ \E k \in Keys : ApiDelete(k)

----------------------------------------------------------------------------
(***************************************************************************)
(* IdempotencyStore called from several threads: the methods take no lock, *)
(* a thread may be preempted between any two accesses of self._store       *)
(***************************************************************************)

\* Calls each thread makes.
MaxThreadCalls == 2

\* A call of thread t begins.
CanCall(t) == thr[t].pc = "idle" /\ thr[t].calls < MaxThreadCalls

Called(t, op, key) ==
    [IdleThread EXCEPT !.op = op, !.key = key, !.calls = thr[t].calls + 1]

\* The call of thread t returns / raises.
Returned(t) == [IdleThread EXCEPT !.calls = thr[t].calls]
Raised(t, error) == [thr[t] EXCEPT !.pc = "failed", !.error = error]

\* set: line 77, one store into the dict.
ThrSet(t, key, result) ==
    /\ CanCall(t)
    /\ store' = StoreSet(store, key, result, clock)
    /\ thr' = [thr EXCEPT ![t] = [IdleThread EXCEPT !.calls = thr[t].calls + 1]]
    /\ UNCHANGED <<clock, api, last_set>>
    /\ UNCHANGED exceptApi

\* get, line 56: if key not in self._store: return None
ThrGetCheck(t, key) ==
    /\ CanCall(t)
    /\ thr' = [thr EXCEPT ![t] =
                  IF key \notin DOMAIN store
                  THEN [IdleThread EXCEPT !.calls = thr[t].calls + 1]
                  ELSE [Called(t, "get", key) EXCEPT !.pc = "get_read"]]
    /\ UNCHANGED <<clock, store, api, last_set>>
    /\ UNCHANGED exceptApi

\* get, lines 59-67: stored_time, result = self._store[key]; the expiry test.
ThrGetRead(t) ==
    /\ thr[t].pc = "get_read"
    /\ thr' = [thr EXCEPT ![t] =
                  IF thr[t].key \notin DOMAIN store
                  THEN Raised(t, "KeyError")
                  ELSE IF Expired(store[thr[t].key].stored_time, clock)
                  THEN [thr[t] EXCEPT !.pc = "get_del"]
                  ELSE Returned(t)]
    /\ UNCHANGED <<clock, store, api, last_set>>
    /\ UNCHANGED exceptApi

\* get, lines 63-64: del self._store[key]; return None
ThrGetDel(t) ==
    /\ thr[t].pc = "get_del"
    /\ IF thr[t].key \notin DOMAIN store
       THEN /\ thr' = [thr EXCEPT ![t] = Raised(t, "KeyError")]
            /\ UNCHANGED store
       ELSE /\ thr' = [thr EXCEPT ![t] = Returned(t)]
            /\ store' = StoreDelete(store, thr[t].key)
    /\ UNCHANGED <<clock, api, last_set>>
    /\ UNCHANGED exceptApi

\* delete, line 87: if key in self._store:
ThrDeleteCheck(t, key) ==
    /\ CanCall(t)
    /\ thr' = [thr EXCEPT ![t] =
                  IF key \in DOMAIN store
                  THEN [Called(t, "delete", key) EXCEPT !.pc = "del_del"]
                  ELSE [IdleThread EXCEPT !.calls = thr[t].calls + 1]]
    /\ UNCHANGED <<clock, store, api, last_set>>
    /\ UNCHANGED exceptApi

\* delete, line 88: del self._store[key]
ThrDeleteDel(t) ==
    /\ thr[t].pc = "del_del"
    /\ IF thr[t].key \notin DOMAIN store
       THEN /\ thr' = [thr EXCEPT ![t] = Raised(t, "KeyError")]
            /\ UNCHANGED store
       ELSE /\ thr' = [thr EXCEPT ![t] = Returned(t)]
            /\ store' = StoreDelete(store, thr[t].key)
    /\ UNCHANGED <<clock, api, last_set>>
    /\ UNCHANGED exceptApi

\* cleanup_expired, lines 97-100: the cutoff is taken and the iteration over
\* self._store.items() begins (the iterator remembers the size of the dict).
ThrSweepStart(t) ==
    /\ CanCall(t)
    /\ thr' = [thr EXCEPT ![t] =
                  [Called(t, "cleanup", OpKey) EXCEPT
                      !.pc = "sweep_iter", !.stored_time = clock - ttl_hours,
                      !.iter_size = Cardinality(DOMAIN store)]]
    /\ UNCHANGED <<clock, store, api, last_set>>
    /\ UNCHANGED exceptApi

\* cleanup_expired, lines 100-102: one step of the for loop. The iterator
\* raises RuntimeError when the dict has changed size since the loop began.
ThrSweepNext(t) ==
    /\ thr[t].pc = "sweep_iter"
    /\ IF Cardinality(DOMAIN store) # thr[t].iter_size
       THEN thr' = [thr EXCEPT ![t] = Raised(t, "RuntimeError")]
       ELSE IF DOMAIN store \ thr[t].seen = {}
       THEN thr' = [thr EXCEPT ![t].pc = "sweep_del"]
       ELSE \E k \in DOMAIN store \ thr[t].seen :
               thr' = [thr EXCEPT
                          ![t].seen = @ \cup {k},
                          ![t].expired =
                              IF store[k].stored_time < thr[t].stored_time
                              THEN @ \cup {k} ELSE @]
    /\ UNCHANGED <<clock, store, api, last_set>>
    /\ UNCHANGED exceptApi

\* cleanup_expired, lines 104-110: del self._store[key] for the next expired
\* key, or return len(expired_keys) when none is left.
ThrSweepDel(t) ==
    /\ thr[t].pc = "sweep_del"
    /\ IF thr[t].expired = {}
       THEN /\ thr' = [thr EXCEPT ![t] = Returned(t)]
            /\ UNCHANGED store
       ELSE \E k \in thr[t].expired :
               IF k \notin DOMAIN store
               THEN /\ thr' = [thr EXCEPT ![t] = Raised(t, "KeyError")]
                    /\ UNCHANGED store
               ELSE /\ thr' = [thr EXCEPT ![t].expired = @ \ {k},
                                          ![t].removed = @ + 1]
                    /\ store' = StoreDelete(store, k)
    /\ UNCHANGED <<clock, api, last_set>>
    /\ UNCHANGED exceptApi

ThreadsNext ==
    \/ Tick
    \/ \E t \in Threads, k \in Keys, r \in ApiResults : ThrSet(t, k, r)
    \/ \E t \in Threads, k \in Keys : ThrGetCheck(t, k)
    \/ \E t \in Threads : ThrGetRead(t)
    \/ \E t \in Threads : ThrGetDel(t)
    \/ \E t \in Threads, k \in Keys : ThrDeleteCheck(t, k)
    \/ \E t \in Threads : ThrDeleteDel(t)
    \/ \E t \in Threads : ThrSweepStart(t)
    \/ \E t \in Threads : ThrSweepNext(t)
    \/ \E t \in Threads : ThrSweepDel(t)

----------------------------------------------------------------------------
(***************************************************************************)
(* app/core/currency.py: rounding and tax arithmetic on Decimal            *)
(*                                                                         *)
(* A Decimal is followed as an exact fraction [num, den] with den > 0.     *)
(* Decimal's + and * are exact on these inputs; Decimal's / rounds to 28   *)
(* significant digits, which for whole-cent amounts and integer rates      *)
(* cannot move a quotient onto or across a 2-decimal rounding boundary (a  *)
(* quotient that is not itself a tie is at least 1/(2*(100+rate)) cent     *)
(* away from one), so the quotient is followed exactly as well. Results    *)
(* of quantize are integers counted in units of 10^-decimals.              *)
(***************************************************************************)

\* Amounts: coefficients up to MaxCoeff at 0..3 digits after the point, the
\* amounts of the unit tests, whole-cent amounts up to MaxCents.
MaxCoeff == 300
MaxCents == 250

Coefficients == (-MaxCoeff..MaxCoeff) \cup {10123, 10125, 10999}
Scales == 0..3
DecimalPlaces == 0..4
Cents == (-MaxCents..MaxCents) \cup {10000, 10700, 11900}

\* Tax rates in percent.
TaxRates == {0, 5, 7, 16, 19, 20}

RECURSIVE Pow10(_)
Pow10(n) == IF n = 0 THEN 1 ELSE 10 * Pow10(n - 1)

Abs(x) == IF x < 0 THEN -x ELSE x
Sign(x) == IF x < 0 THEN -1 ELSE 1

\* Decimal values and Decimal arithmetic.
Dec(num, den) == [num |-> num, den |-> den]
DecAdd(a, b) == Dec(a.num * b.den + b.num * a.den, a.den * b.den)
DecMul(a, b) == Dec(a.num * b.num, a.den * b.den)
DecDiv(a, b) == Dec(a.num * b.den * Sign(b.num), a.den * Abs(b.num))

\* A variant that drops the digits beyond the scale.
QuantizeTruncate(x, decimals) ==
    Sign(x.num) * ((Abs(x.num) * Pow10(decimals)) \div x.den)

\* A variant that rounds a tie to the even neighbour.
QuantizeHalfEven(x, decimals) ==
    LET n == Abs(x.num) * Pow10(decimals)
        q == n \div x.den
        rem == n % x.den
    IN  Sign(x.num) * (IF 2 * rem > x.den \/ (2 * rem = x.den /\ q % 2 = 1)
                       THEN q + 1 ELSE q)

\* Decimal.quantize(Decimal(10) ** -decimals, rounding=ROUND_HALF_UP): the
\* digits beyond the scale are dropped and the last kept digit is raised
\* when the first dropped digit is 5 or more, on the absolute value.
QuantizeHalfUp(x, decimals) ==
    LET n == Abs(x.num) * Pow10(decimals)
        q == n \div x.den
        rem == n % x.den
    IN  Sign(x.num) * (IF 2 * rem >= x.den THEN q + 1 ELSE q)

\* round_currency(amount, decimals): every branch of lines 273-280 builds
\* the quantum 10^-decimals; amount has coefficient coeff and scale digits.
round_currency(coeff, scale, decimals) ==
    QuantizeHalfUp(Dec(coeff, Pow10(scale)), decimals)

\* An amount of whole cents, a result of round_currency(x) as a Decimal.
CentsDec(c) == Dec(c, 100)

\* A variant that takes the tax off the gross amount.
NetByDiscount(gross, tax_rate) ==
    QuantizeHalfUp(DecMul(CentsDec(gross), Dec(100 - tax_rate, 100)), 2)

\* calculate_net_from_gross(gross, tax_rate), amounts in cents
calculate_net_from_gross(gross, tax_rate) ==
    LET divisor == DecAdd(Dec(1, 1), DecDiv(Dec(tax_rate, 1), Dec(100, 1)))
        net == DecDiv(CentsDec(gross), divisor)
    IN  QuantizeHalfUp(net, 2)

\* calculate_gross_from_net(net, tax_rate), amounts in cents
calculate_gross_from_net(net, tax_rate) ==
    LET multiplier == DecAdd(Dec(1, 1), DecDiv(Dec(tax_rate, 1), Dec(100, 1)))
        gross == DecMul(CentsDec(net), multiplier)
    IN  QuantizeHalfUp(gross, 2)

\* A variant of the tax that drops the digits beyond the cent.
TaxTruncated(net, tax_rate) ==
    QuantizeTruncate(DecMul(CentsDec(net), DecDiv(Dec(tax_rate, 1), Dec(100, 1))), 2)

\* calculate_tax_amount(net, tax_rate), amounts in cents
calculate_tax_amount(net, tax_rate) ==
    LET tax == DecMul(CentsDec(net), DecDiv(Dec(tax_rate, 1), Dec(100, 1)))
    IN  QuantizeHalfUp(tax, 2)

\* No call made yet.
NoCurCall == [fn |-> "none", amount |-> 0, scale |-> 0, decimals |-> 0,
              rate |-> 0, done |-> FALSE, result |-> 0, back |-> 0]

CurIdle == cur = NoCurCall

\* A call about to be made: fn(amount, ...) with amount a coefficient at
\* scale digits after the point.
Pending(fn, amount, scale, decimals, rate) ==
    [NoCurCall EXCEPT !.fn = fn, !.amount = amount, !.scale = scale,
                      !.decimals = decimals, !.rate = rate]

PendingCalls ==
    { Pending("round_currency", c, s, d, 0) :
          c \in Coefficients, s \in Scales, d \in DecimalPlaces }
    \cup { Pending(f, c, 2, 2, r) :
              f \in {"net_from_gross", "gross_from_net", "tax_amount", "roundtrip",
                     "invoice"},
              c \in Cents, r \in TaxRates }

CurCallInit == cur \in PendingCalls

\* The call in progress is one of fn.
Calling(fn) == cur.fn = fn /\ ~cur.done

\* The call has returned result (and back, for the second call of a pair).
Finished(result, back) == [cur EXCEPT !.done = TRUE, !.result = result, !.back = back]

CallRoundCurrency ==
    /\ Calling("round_currency")
    /\ cur' = Finished(round_currency(cur.amount, cur.scale, cur.decimals), 0)
    /\ UNCHANGED exceptCur

CallNetFromGross ==
    /\ Calling("net_from_gross")
    /\ cur' = Finished(calculate_net_from_gross(cur.amount, cur.rate), 0)
    /\ UNCHANGED exceptCur

CallGrossFromNet ==
    /\ Calling("gross_from_net")
    /\ cur' = Finished(calculate_gross_from_net(cur.amount, cur.rate), 0)
    /\ UNCHANGED exceptCur

CallTaxAmount ==
    /\ Calling("tax_amount")
    /\ cur' = Finished(calculate_tax_amount(cur.amount, cur.rate), 0)
    /\ UNCHANGED exceptCur

\* net = calculate_net_from_gross(g, r); back = calculate_gross_from_net(net, r)
CallRoundTrip ==
    /\ Calling("roundtrip")
    /\ LET net == calculate_net_from_gross(cur.amount, cur.rate)
       IN  cur' = Finished(net, calculate_gross_from_net(net, cur.rate))
    /\ UNCHANGED exceptCur

\* The amounts of one invoice line: tax = calculate_tax_amount(net, r) and
\* gross = calculate_gross_from_net(net, r)
CallInvoiceAmounts ==
    /\ Calling("invoice")
    /\ cur' = Finished(calculate_tax_amount(cur.amount, cur.rate),
                       calculate_gross_from_net(cur.amount, cur.rate))
    /\ UNCHANGED exceptCur

CurrencyNext ==
    \/ CallRoundCurrency
    \/ CallNetFromGross
    \/ CallGrossFromNet
    \/ CallTaxAmount
    \/ CallRoundTrip
    \/ CallInvoiceAmounts

----------------------------------------------------------------------------
(***************************************************************************)
(* app/core/currency.py: exchange rate providers and convert_currency      *)
(*                                                                         *)
(* Rates are Decimals, followed as exact fractions as above.               *)
(***************************************************************************)

\* Currency codes: the base, two quoted currencies, one no table quotes.
Currencies == {"EUR", "USD", "GBP", "JPY"}

\* Rate tables relative to EUR: what the ECB publishes on two days, and the
\* manual table of the settings ({"USD": 1.10}).
NoTable == [c \in {} |-> Dec(0, 1)]
EcbTable(day) ==
    IF day = 1
    THEN [c \in {"USD", "GBP"} |-> IF c = "USD" THEN Dec(11, 10) ELSE Dec(8, 10)]
    ELSE [c \in {"USD", "GBP"} |-> IF c = "USD" THEN Dec(12, 10) ELSE Dec(9, 10)]
ManualTable == [c \in {"USD"} |-> Dec(11, 10)]
ManualTables == {ManualTable, EcbTable(2)}

\* The hours now() is read at: steps of FxStep up to MaxFxClock.
FxStep == 12
MaxFxClock == 36

\* ECBProvider.CACHE_DURATION = timedelta(hours=24)
CACHE_DURATION == 24

\* settings.exchange_rate_provider, fixer_api_key, manual_exchange_rates
FxSettings ==
    [exchange_rate_provider : {"ecb"}, fixer_api_key : {FALSE}, manual_exchange_rates : {NoTable}]
    \cup [exchange_rate_provider : {"fixer"}, fixer_api_key : BOOLEAN,
          manual_exchange_rates : {NoTable}]
    \cup [exchange_rate_provider : {"manual"}, fixer_api_key : {FALSE},
          manual_exchange_rates : {NoTable, ManualTable}]

\* The request date of a call: none, or one calendar day.
NoDate == "none"
Dates == {NoDate, "2024-01-05"}

\* cache_key = "daily" if date is None else date.strftime("%Y-%m-%d")
CacheKey(date) == IF date = NoDate THEN "daily" ELSE date

\* _provider is None, and a provider instance.
\* self.cache = {}: cache_key -> (timestamp, rates)
EmptyCache == [k \in {} |-> [at |-> 0, rates |-> NoTable]]

\* _provider is None, and the instances of the three classes; id tells one
\* instance from another.
NoProvider == [kind |-> "none", id |-> 0, rates |-> NoTable, cache |-> EmptyCache]
ECBProvider(id) == [kind |-> "ecb", id |-> id, rates |-> NoTable, cache |-> EmptyCache]
FixerProvider(id) == [kind |-> "fixer", id |-> id, rates |-> NoTable, cache |-> EmptyCache]
ManualProvider(id, rates) ==
    [kind |-> "manual", id |-> id, rates |-> rates, cache |-> EmptyCache]

\* An exception: its type, the currency codes and the provider its message
\* names ("" when it names none).
FxError(type, codes, provider) == [type |-> type, codes |-> codes, provider |-> provider]
NoFxError == FxError("none", {}, "")

\* What a call returns or raises, with what it cost: network fetches, reads
\* of the ECB cache, lookups in a rate table; table is the table it used.
FxResult(ok, value, error, fetches, cache_reads, lookups, table) ==
    [ok |-> ok, value |-> value, error |-> error, fetches |-> fetches,
     cache_reads |-> cache_reads, lookups |-> lookups, table |-> table]
FxReturn(value, fetches, cache_reads, lookups, table) ==
    FxResult(TRUE, value, NoFxError, fetches, cache_reads, lookups, table)
FxRaise(error, fetches, cache_reads, lookups, table) ==
    FxResult(FALSE, Dec(0, 1), error, fetches, cache_reads, lookups, table)

\* A variant of the cross-rate arithmetic that inverts the rate to EUR.
CrossRateInverted(rates, from_currency, to_currency) ==
    IF from_currency = "EUR" THEN DecDiv(Dec(1, 1), rates[to_currency])
    ELSE IF to_currency = "EUR" THEN rates[from_currency]
    ELSE DecDiv(rates[from_currency], rates[to_currency])

\* The arithmetic of ECBProvider.get_rate (lines 68-86) and
\* ManualProvider.get_rate (lines 181-194) once the codes are in the table.
CrossRate(rates, from_currency, to_currency) ==
    IF from_currency = "EUR" THEN rates[to_currency]
    ELSE IF to_currency = "EUR" THEN DecDiv(Dec(1, 1), rates[from_currency])
    ELSE DecDiv(rates[to_currency], rates[from_currency])

\* The provider the message of the pair error names.
PairErrorProvider(name) == IF name = "ECB" THEN "ECB" ELSE ""

\* The table lookups of get_rate for from != to: the missing-code checks and
\* the rate. name is the provider the messages speak of.
RateFromTable(rates, from_currency, to_currency, name, fetches, cache_reads) ==
    IF from_currency = "EUR"
    THEN IF to_currency \notin DOMAIN rates
         THEN FxRaise(FxError("ValueError", {to_currency}, name),
                      fetches, cache_reads, 1, rates)
         ELSE FxReturn(CrossRate(rates, from_currency, to_currency),
                       fetches, cache_reads, 1, rates)
    ELSE IF to_currency = "EUR"
    THEN IF from_currency \notin DOMAIN rates
         THEN FxRaise(FxError("ValueError", {from_currency}, name),
                      fetches, cache_reads, 1, rates)
         ELSE FxReturn(CrossRate(rates, from_currency, to_currency),
                       fetches, cache_reads, 1, rates)
    ELSE IF from_currency \notin DOMAIN rates \/ to_currency \notin DOMAIN rates
    THEN FxRaise(FxError("ValueError", {from_currency, to_currency},
                         PairErrorProvider(name)),
                 fetches, cache_reads, 1, rates)
    ELSE FxReturn(CrossRate(rates, from_currency, to_currency),
                  fetches, cache_reads, 1, rates)

\* What _fetch_rates hands back: the provider with its cache afterwards, the
\* table (or the failure of the fetch), the fetches and cache reads made.
Fetched(provider, ok, rates, fetches, cache_reads) ==
    [provider |-> provider, ok |-> ok, rates |-> rates, fetches |-> fetches,
     cache_reads |-> cache_reads]

\* self.cache[cache_key] = (now(), rates)
CachePut(cache, cache_key, at, rates) ==
    [k \in DOMAIN cache \cup {cache_key} |->
        IF k = cache_key THEN [at |-> at, rates |-> rates] ELSE cache[k]]

\* A variant of the freshness test that still serves an entry at 24 hours.
FreshAtDuration(cache, cache_key, t) ==
    /\ cache_key \in DOMAIN cache
    /\ t - cache[cache_key].at <= CACHE_DURATION

\* cache_key in self.cache and now() - cached_time < CACHE_DURATION
Fresh(cache, cache_key, t) ==
    /\ cache_key \in DOMAIN cache
    /\ t - cache[cache_key].at < CACHE_DURATION

\* except Exception: if cache_key in self.cache: the key whose entry is
\* served (none: the exception is raised again).
StaleKey(cache, cache_key) ==
    IF cache_key \in DOMAIN cache THEN {cache_key} ELSE {}

\* ECBProvider._fetch_rates(date) at time t; the GET succeeds with the table
\* remote when fetch_ok, and fails otherwise.
fetch_rates(provider, date, t, fetch_ok, remote) ==
    LET cache_key == CacheKey(date)
        cache == provider.cache
    IN  IF Fresh(cache, cache_key, t)
        THEN Fetched(provider, TRUE, cache[cache_key].rates, 0, 1)
        ELSE IF fetch_ok
        THEN Fetched([provider EXCEPT !.cache = CachePut(cache, cache_key, t, remote)],
                     TRUE, remote, 1, 1)
        ELSE IF StaleKey(cache, cache_key) # {}
        THEN Fetched(provider, TRUE,
                     cache[CHOOSE k \in StaleKey(cache, cache_key) : TRUE].rates, 1, 1)
        ELSE Fetched(provider, FALSE, NoTable, 1, 1)

\* A get_rate call: what it returns or raises, and the provider afterwards.
RateCall(provider, res) == [provider |-> provider, res |-> res]

\* return Decimal("1.0")
One == Dec(10, 10)

\* A variant that fetches the table before it compares the two codes.
EcbFetchFirst(provider, from_currency, to_currency, date, t, fetch_ok, remote) ==
    LET f == fetch_rates(provider, date, t, fetch_ok, remote)
    IN  IF ~f.ok
        THEN RateCall(f.provider,
                      FxRaise(FxError("HTTPError", {}, ""), f.fetches,
                              f.cache_reads, 0, NoTable))
        ELSE IF from_currency = to_currency
        THEN RateCall(f.provider, FxReturn(One, f.fetches, f.cache_reads, 0, f.rates))
        ELSE RateCall(f.provider,
                      RateFromTable(f.rates, from_currency, to_currency, "ECB",
                                    f.fetches, f.cache_reads))

\* ECBProvider.get_rate
ecb_get_rate(provider, from_currency, to_currency, date, t, fetch_ok, remote) ==
    IF from_currency = to_currency
    THEN RateCall(provider, FxReturn(One, 0, 0, 0, NoTable))
    ELSE LET f == fetch_rates(provider, date, t, fetch_ok, remote)
         IN  IF ~f.ok
             THEN RateCall(f.provider,
                           FxRaise(FxError("HTTPError", {}, ""), f.fetches,
                                   f.cache_reads, 0, NoTable))
             ELSE RateCall(f.provider,
                           RateFromTable(f.rates, from_currency, to_currency, "ECB",
                                         f.fetches, f.cache_reads))

\* FixerProvider.get_rate
fixer_get_rate(provider, from_currency, to_currency) ==
    IF from_currency = to_currency
    THEN RateCall(provider, FxReturn(One, 0, 0, 0, NoTable))
    ELSE RateCall(provider,
                  FxRaise(FxError("NotImplementedError", {}, "Fixer.io"), 0, 0, 0, NoTable))

\* ManualProvider.get_rate
manual_get_rate(provider, from_currency, to_currency) ==
    IF from_currency = to_currency
    THEN RateCall(provider, FxReturn(One, 0, 0, 0, NoTable))
    ELSE RateCall(provider,
                  RateFromTable(provider.rates, from_currency, to_currency,
                                "manual rates", 0, 0))

\* provider.get_rate(from_currency, to_currency, date)
get_rate(provider, from_currency, to_currency, date, t, fetch_ok, remote) ==
    IF provider.kind = "ecb"
    THEN ecb_get_rate(provider, from_currency, to_currency, date, t, fetch_ok, remote)
    ELSE IF provider.kind = "fixer"
    THEN fixer_get_rate(provider, from_currency, to_currency)
    ELSE manual_get_rate(provider, from_currency, to_currency)

\* What get_exchange_rate_provider does: the global afterwards, whether it
\* returned, the instances constructed by the call.
Provided(provider, ok, constructed) ==
    [provider |-> provider, ok |-> ok, constructed |-> constructed]

\* A variant that selects a provider on every call.
ProviderEveryCall(installed, settings, made) ==
    IF settings.exchange_rate_provider = "ecb"
    THEN Provided(ECBProvider(made + 1), TRUE, 1)
    ELSE IF settings.exchange_rate_provider = "fixer"
    THEN IF ~settings.fixer_api_key
         THEN Provided(installed, FALSE, 0)
         ELSE Provided(FixerProvider(made + 1), TRUE, 1)
    ELSE IF settings.manual_exchange_rates = NoTable
         THEN Provided(installed, FALSE, 0)
         ELSE Provided(ManualProvider(made + 1, settings.manual_exchange_rates), TRUE, 1)

\* get_exchange_rate_provider(): installed is the global _provider, made the
\* number of instances constructed so far.
get_exchange_rate_provider(installed, settings, made) ==
    IF installed # NoProvider
    THEN Provided(installed, TRUE, 0)
    ELSE IF settings.exchange_rate_provider = "ecb"
    THEN Provided(ECBProvider(made + 1), TRUE, 1)
    ELSE IF settings.exchange_rate_provider = "fixer"
    THEN IF ~settings.fixer_api_key
         THEN Provided(installed, FALSE, 0)
         ELSE Provided(FixerProvider(made + 1), TRUE, 1)
    ELSE IF settings.manual_exchange_rates = NoTable
         THEN Provided(installed, FALSE, 0)
         ELSE Provided(ManualProvider(made + 1, settings.manual_exchange_rates), TRUE, 1)

\* A variant of the conversion that drops the digits beyond the cent.
ConvertTruncate(amount, rate) == QuantizeTruncate(DecMul(amount, rate), 2)

\* converted = amount * rate; converted.quantize(Decimal("0.01"), ROUND_HALF_UP)
\* as a Decimal of whole cents.
ConvertRound(amount, rate) == QuantizeHalfUp(DecMul(amount, rate), 2)

\* What convert_currency does: the result, the global provider afterwards,
\* the provider calls it made, the instances it constructed.
Converted(res, provider, provider_calls, rate_calls, constructed) ==
    [res |-> res, provider |-> provider, provider_calls |-> provider_calls,
     rate_calls |-> rate_calls, constructed |-> constructed]

\* A variant without the shortcut for from_currency = to_currency.
ConvertNoShortcut(installed, settings, made, amount, from_currency, to_currency, date, t, fetch_ok, remote) ==
    LET p == get_exchange_rate_provider(installed, settings, made)
    IN  IF ~p.ok
        THEN Converted(FxRaise(FxError("ValueError", {}, ""), 0, 0, 0, NoTable),
                       p.provider, 1, 0, p.constructed)
        ELSE LET r == get_rate(p.provider, from_currency, to_currency, date,
                               t, fetch_ok, remote)
             IN  IF ~r.res.ok
                 THEN Converted(r.res, r.provider, 1, 1, p.constructed)
                 ELSE Converted([r.res EXCEPT
                                    !.value = CentsDec(ConvertRound(amount, r.res.value))],
                                r.provider, 1, 1, p.constructed)

\* convert_currency(amount, from_currency, to_currency, date)
convert_currency(installed, settings, made, amount, from_currency, to_currency, date, t, fetch_ok, remote) ==
    IF from_currency = to_currency
    THEN Converted(FxReturn(amount, 0, 0, 0, NoTable), installed, 0, 0, 0)
    ELSE LET p == get_exchange_rate_provider(installed, settings, made)
         IN  IF ~p.ok
             THEN Converted(FxRaise(FxError("ValueError", {}, ""), 0, 0, 0, NoTable),
                            p.provider, 1, 0, p.constructed)
             ELSE LET r == get_rate(p.provider, from_currency, to_currency, date,
                                    t, fetch_ok, remote)
                  IN  IF ~r.res.ok
                      THEN Converted(r.res, r.provider, 1, 1, p.constructed)
                      ELSE Converted([r.res EXCEPT
                                         !.value = CentsDec(ConvertRound(amount, r.res.value))],
                                     r.provider, 1, 1, p.constructed)

\* Amounts handed to convert_currency: 100.00 and 12.345.
Amounts == {Dec(10000, 100), Dec(12345, 1000)}

\* The table the ECB serves at hour t: one table a day.
Published(t) == EcbTable(IF t < 24 THEN 1 ELSE 2)

\* No call observed yet.
NoFxCall ==
    [fn |-> "none", from_currency |-> "EUR", to_currency |-> "EUR", date |-> NoDate,
     amount |-> Dec(0, 1), fetch_ok |-> FALSE, at |-> 0,
     res |-> FxReturn(Dec(0, 1), 0, 0, 0, NoTable),
     before |-> NoProvider,
     provider_calls |-> 0, rate_calls |-> 0, constructed |-> 0,
     fetched |-> EmptyCache]

\* The process after import: settings at their defaults, _provider = None.
\* fetched is the record of the last successful fetch per cache key.
DefaultSettings ==
    [exchange_rate_provider |-> "ecb", fixer_api_key |-> FALSE,
     manual_exchange_rates |-> NoTable]

FxInitial ==
    fx = [settings |-> DefaultSettings, provider |-> NoProvider, made |-> 0,
          now |-> 0, fetched |-> EmptyCache, call |-> NoFxCall]

\* The call observed: the state it found and what it did.
FxObserved(fn, from_currency, to_currency, date, amount, fetch_ok, res,
           provider_calls, rate_calls, constructed) ==
    [fn |-> fn, from_currency |-> from_currency, to_currency |-> to_currency,
     date |-> date, amount |-> amount, fetch_ok |-> fetch_ok, at |-> fx.now,
     res |-> res, before |-> fx.provider,
     provider_calls |-> provider_calls, rate_calls |-> rate_calls,
     constructed |-> constructed, fetched |-> fx.fetched]

\* The record of successful fetches after a call that made one for date.
FetchedAfter(res, date, fetch_ok) ==
    IF res.fetches > 0 /\ fetch_ok
    THEN CachePut(fx.fetched, CacheKey(date), fx.now, Published(fx.now))
    ELSE fx.fetched

\* Time passes.
FxTick ==
    /\ fx.now + FxStep <= MaxFxClock
    /\ fx' = [fx EXCEPT !.now = fx.now + FxStep]
    /\ UNCHANGED exceptFx

\* The settings change.
FxConfigure(s) ==
    /\ s # fx.settings
    /\ fx' = [fx EXCEPT !.settings = s]
    /\ UNCHANGED exceptFx

\* get_exchange_rate_provider()
FxGetProvider ==
    /\ LET p == get_exchange_rate_provider(fx.provider, fx.settings, fx.made)
       IN  fx' = [fx EXCEPT
                     !.provider = p.provider,
                     !.made = fx.made + p.constructed,
                     !.call = FxObserved("get_provider", "EUR", "EUR", NoDate, Dec(0, 1),
                                         FALSE,
                                         FxResult(p.ok, Dec(0, 1),
                                                  IF p.ok THEN NoFxError
                                                  ELSE FxError("ValueError", {}, ""),
                                                  0, 0, 0, NoTable),
                                         1, 0, p.constructed)]
    /\ UNCHANGED exceptFx

\* _provider.get_rate(from_currency, to_currency, date)
FxGetRate(from_currency, to_currency, date, fetch_ok) ==
    /\ fx.provider # NoProvider
    /\ LET r == get_rate(fx.provider, from_currency, to_currency, date, fx.now,
                         fetch_ok, Published(fx.now))
       IN  fx' = [fx EXCEPT
                     !.provider = r.provider,
                     !.fetched = FetchedAfter(r.res, date, fetch_ok),
                     !.call = FxObserved("get_rate", from_currency, to_currency, date,
                                         Dec(0, 1), fetch_ok, r.res, 0, 1, 0)]
    /\ UNCHANGED exceptFx

\* convert_currency(amount, from_currency, to_currency, date)
FxConvert(amount, from_currency, to_currency, date, fetch_ok) ==
    /\ LET c == convert_currency(fx.provider, fx.settings, fx.made, amount,
                                 from_currency, to_currency, date, fx.now, fetch_ok,
                                 Published(fx.now))
       IN  fx' = [fx EXCEPT
                     !.provider = c.provider,
                     !.made = fx.made + c.constructed,
                     !.fetched = FetchedAfter(c.res, date, fetch_ok),
                     !.call = FxObserved("convert", from_currency, to_currency, date,
                                         amount, fetch_ok, c.res, c.provider_calls,
                                         c.rate_calls, c.constructed)]
    /\ UNCHANGED exceptFx

\* A provider instance constructed directly, as the providers' callers and
\* get_exchange_rate_provider do.
FxProviderInit ==
    \E p \in {ECBProvider(1), FixerProvider(1)}
              \cup {ManualProvider(1, t) : t \in ManualTables} :
        fx = [settings |-> DefaultSettings, provider |-> p, made |-> 1,
              now |-> 0, fetched |-> EmptyCache, call |-> NoFxCall]

\* Calls of one provider's get_rate as time passes.
RatesNext ==
    \/ FxTick
    \/ \E f \in Currencies, t \in Currencies, d \in Dates, ok \in BOOLEAN :
           FxGetRate(f, t, d, ok)

\* Calls of get_exchange_rate_provider and convert_currency while the
\* settings change.
ConvertNext ==
    \/ \E s \in FxSettings : FxConfigure(s)
    \/ FxGetProvider
    \/ \E a \in Amounts, f \in Currencies, t \in Currencies, d \in Dates, ok \in BOOLEAN :
           FxConvert(a, f, t, d, ok)

----------------------------------------------------------------------------
(***************************************************************************)
(* BaseAPIClient: time, the rate limiter                                   *)
(***************************************************************************)

\* BaseAPIClient.__init__(rate_limit=10): requests per second.
rate_limit == 10

\* Loop time is counted in ticks of half a rate-limit interval.
TicksPerSecond == 2 * rate_limit

\* min_interval = 1.0 / self.rate_limit
min_interval == TicksPerSecond \div rate_limit

\* asyncio.sleep returns when the delay has passed, or up to MaxOversleep
\* ticks later (the loop was busy).
MaxOversleep == 1

\* A variant that never sleeps.
NoRateLimitSleep(current_time, last) == 0

\* _rate_limit_wait, lines 101-106: the delay it sleeps for (0: no sleep).
RateLimitSleep(current_time, last) ==
    LET time_since_last == current_time - last
    IN  IF time_since_last < min_interval THEN min_interval - time_since_last ELSE 0

\* A client just constructed (_last_request_time = 0.0) on a loop whose clock
\* has been running.
ClientInitial ==
    /\ last_request_time = 0
    /\ loop_time = min_interval

----------------------------------------------------------------------------
(***************************************************************************)
(* BaseAPIClient.request under tenacity's @retry                           *)
(***************************************************************************)

\* Settings.max_retry_attempts, retry_backoff_multiplier, retry_max_wait
max_retry_attempts       == 3
retry_backoff_multiplier == 2
retry_max_wait           == 300

\* int(response.headers.get("Retry-After", 60))
DefaultRetryAfter == 60

\* request calls followed, idle time before a call, duration of an exchange.
MaxCalls   == 3
MaxGap     == 2
MaxLatency == 1

\* No value (Python's None) and a value, for an optional field.
Nothing == <<>>
Some(x) == <<x>>

\* Response bodies: none, a JSON document, a text that is not JSON.
Bodies == {"", "json-text", "html-text"}
IsJson(body) == body = "json-text"

\* Retry-After headers: absent, a number of seconds, an HTTP date.
NoHeader        == [present |-> FALSE, numeric |-> TRUE, seconds |-> 0]
SecondsHeader(n) == [present |-> TRUE, numeric |-> TRUE, seconds |-> n]
DateHeader      == [present |-> TRUE, numeric |-> FALSE, seconds |-> 0]
RetryAfterHeaders == {NoHeader, SecondsHeader(1), SecondsHeader(5), DateHeader}

\* What the HTTP transport (httpx.AsyncClient.request) can produce.
NetworkFailures == {"NetworkError", "TimeoutException"}

HttpResponse(status, header, body) ==
    [kind |-> "response", status |-> status, retry_after |-> header, body |-> body]

TransportFailure(kind) ==
    [kind |-> kind, status |-> 0, retry_after |-> NoHeader, body |-> ""]

Outcomes ==
    { TransportFailure(k) : k \in NetworkFailures }
    \cup { HttpResponse(200, NoHeader, b) : b \in Bodies }
    \cup { HttpResponse(429, h, "") : h \in RetryAfterHeaders }
    \cup { HttpResponse(st, NoHeader, "") : st \in {401, 403} }
    \cup { HttpResponse(st, NoHeader, b) : st \in {404, 500}, b \in Bodies }

\* An exception object: APIError and its subclasses carry status_code and
\* response; the others carry nothing.
Exc(type, status_code, response) ==
    [type |-> type, status_code |-> status_code, response |-> response]
NoExc == Exc("none", Nothing, Nothing)

\* response.json()
ParsedJson(body) == <<"parsed", body>>

\* httpx.Response.is_success (raise_for_status raises when it is false)
IsSuccess(status) == status >= 200 /\ status <= 299

\* The body of request from the transport's outcome on (lines 144-178):
\* what it does next. "sleep" is the Retry-After sleep before the raise.
HandleOutcome(o) ==
    IF o.kind \in NetworkFailures
    THEN \* except httpx.RequestError: raise APIError(f"Request failed: {e}")
         [do |-> "raise", seconds |-> 0, exc |-> Exc("APIError", Nothing, Nothing),
          value |-> Nothing]
    ELSE IF o.status = 429
    THEN IF o.retry_after.numeric
         THEN [do |-> "sleep",
               seconds |-> IF o.retry_after.present THEN o.retry_after.seconds
                           ELSE DefaultRetryAfter,
               exc |-> Exc("RateLimitError", Some(429), Nothing), value |-> Nothing]
         ELSE \* int() of a date raises
              [do |-> "raise", seconds |-> 0, exc |-> Exc("ValueError", Nothing, Nothing),
               value |-> Nothing]
    ELSE IF o.status \in {401, 403}
    THEN [do |-> "raise", seconds |-> 0,
          exc |-> Exc("AuthenticationError", Some(o.status), Nothing), value |-> Nothing]
    ELSE IF ~IsSuccess(o.status)
    THEN \* raise_for_status(); except httpx.HTTPStatusError
         IF o.body = ""
         THEN [do |-> "raise", seconds |-> 0,
               exc |-> Exc("APIError", Some(o.status), Nothing), value |-> Nothing]
         ELSE IF IsJson(o.body)
         THEN [do |-> "raise", seconds |-> 0,
               exc |-> Exc("APIError", Some(o.status), Some(ParsedJson(o.body))),
               value |-> Nothing]
         ELSE \* e.response.json() raises inside the handler
              [do |-> "raise", seconds |-> 0,
               exc |-> Exc("JSONDecodeError", Nothing, Nothing), value |-> Nothing]
    ELSE \* return response.json()
         IF IsJson(o.body)
         THEN [do |-> "return", seconds |-> 0, exc |-> NoExc,
               value |-> Some(ParsedJson(o.body))]
         ELSE [do |-> "raise", seconds |-> 0,
               exc |-> Exc("JSONDecodeError", Nothing, Nothing), value |-> Nothing]

\* A variant that also retries authentication failures.
RetryIfAnyError(exc) == exc.type \in NetworkFailures \cup {"AuthenticationError"}

\* A variant that also retries a cancelled attempt.
RetryIfCancelled(exc) == exc.type \in NetworkFailures \cup {"CancelledError"}

\* retry=retry_if_exception_type((httpx.NetworkError, httpx.TimeoutException)),
\* applied to the exception that leaves the body of request.
RetryIf(exc) == exc.type \in NetworkFailures

RECURSIVE Pow2(_)
Pow2(n) == IF n = 0 THEN 1 ELSE 2 * Pow2(n - 1)

Min(a, b) == IF a <= b THEN a ELSE b

\* wait=wait_exponential(multiplier=..., max=...): seconds waited after the
\* n-th attempt failed (tenacity: multiplier * 2^(n-1), at most max).
BackoffSeconds(n) == Min(retry_backoff_multiplier * Pow2(n - 1), retry_max_wait)

\* The request call at rest. cancelled is the await the caller's
\* cancellation was delivered at ("no": the call was not cancelled).
IdleRequest ==
    [pc |-> "Idle", attempt_number |-> 0, wake_at |-> 0, passes |-> 0,
     outcomes |-> <<>>, sleeps |-> <<>>, raised |-> NoExc, result |-> Nothing,
     cancelled |-> "no"]

HttpInitial ==
    /\ req = IdleRequest
    /\ calls = 0

\* A variant whose attempts go to the transport without the limiter.
BeginAttemptUnlimited(r, n) ==
    /\ req' = [r EXCEPT !.pc = "Attempting", !.attempt_number = n]
    /\ UNCHANGED last_request_time

\* The start of one attempt: _ensure_client, then _rate_limit_wait up to its
\* sleep (or through to the end when it does not sleep). passes counts the
\* returns of _rate_limit_wait inside the call.
BeginAttempt(r, n) ==
    LET d == RateLimitSleep(loop_time', last_request_time)
    IN  IF d > 0
        THEN /\ req' = [r EXCEPT !.pc = "RateLimiting", !.attempt_number = n,
                                 !.wake_at = loop_time' + d,
                                 !.sleeps = Append(@, <<"rate_limit", d>>)]
             /\ UNCHANGED last_request_time
        ELSE /\ req' = [r EXCEPT !.pc = "Attempting", !.attempt_number = n,
                                 !.passes = @ + 1]
             /\ last_request_time' = loop_time'

\* An exception leaves the body of request: tenacity retries it after a
\* backoff, gives up (RetryError) or lets it through.
Settle(r, exc) ==
    IF RetryIf(exc)
    THEN IF r.attempt_number >= max_retry_attempts
         THEN req' = [r EXCEPT !.pc = "Fatal", !.raised = Exc("RetryError", Nothing, Nothing)]
         ELSE req' = [r EXCEPT !.pc = "RetryWait",
                               !.wake_at = loop_time' +
                                   BackoffSeconds(r.attempt_number) * TicksPerSecond,
                               !.sleeps = Append(@, <<"backoff",
                                   BackoffSeconds(r.attempt_number) * TicksPerSecond>>)]
    ELSE req' = [r EXCEPT !.pc = "Fatal", !.raised = exc]

\* A caller awaits client.request(...), gap ticks after the last event.
StartRequest(gap) ==
    /\ req.pc = "Idle"
    /\ calls < MaxCalls
    /\ calls' = calls + 1
    /\ loop_time' = loop_time + gap
    /\ BeginAttempt(IdleRequest, 1)
    /\ UNCHANGED exceptHttp

\* The HTTP exchange of the attempt ends with outcome o after latency ticks.
Transport(o, latency) ==
    /\ req.pc = "Attempting"
    /\ loop_time' = loop_time + latency
    /\ LET r == [req EXCEPT !.outcomes = Append(@, o)]
           h == HandleOutcome(o)
       IN  CASE h.do = "return" ->
                  req' = [r EXCEPT !.pc = "Success", !.result = h.value]
             [] h.do = "sleep" ->
                  req' = [r EXCEPT !.pc = "RateLimitWait",
                                   !.wake_at = loop_time' + h.seconds * TicksPerSecond,
                                   !.sleeps = Append(@, <<"retry_after",
                                                          h.seconds * TicksPerSecond>>)]
             [] h.do = "raise" -> Settle(r, h.exc)
    /\ UNCHANGED <<last_request_time, calls>>
    /\ UNCHANGED exceptHttp

\* The asyncio.sleep the call is suspended in returns.
Wake(oversleep) ==
    /\ req.pc \in {"RateLimiting", "RateLimitWait", "RetryWait"}
    /\ loop_time' = req.wake_at + oversleep
    /\ CASE req.pc = "RateLimiting" ->
              \* line 108, then the attempt goes on to the exchange
              /\ last_request_time' = loop_time'
              /\ req' = [req EXCEPT !.pc = "Attempting", !.passes = @ + 1]
         [] req.pc = "RateLimitWait" ->
              \* line 153: raise RateLimitError
              /\ Settle(req, Exc("RateLimitError", Some(429), Nothing))
              /\ UNCHANGED last_request_time
         [] req.pc = "RetryWait" ->
              \* tenacity calls request again
              BeginAttempt(req, req.attempt_number + 1)
    /\ UNCHANGED calls
    /\ UNCHANGED exceptHttp

\* The call is over: the caller has the result or the exception.
Return ==
    /\ req.pc \in {"Success", "Fatal"}
    /\ req' = IdleRequest
    /\ UNCHANGED <<loop_time, last_request_time, calls>>
    /\ UNCHANGED exceptHttp

HttpNext ==
    \/ \E gap \in 0..MaxGap : StartRequest(gap)
    \/ \E o \in Outcomes, latency \in 0..MaxLatency : Transport(o, latency)
    \/ \E oversleep \in 0..MaxOversleep : Wake(oversleep)
    \/ Return

\* The awaits the call can be suspended in: the sleep of _rate_limit_wait
\* (line 106), the exchange (line 144), the Retry-After sleep (line 150),
\* tenacity's sleep between attempts.
SuspensionPoints == {"RateLimiting", "Attempting", "RateLimitWait", "RetryWait"}

\* The caller cancels the call elapsed ticks on, before the await it is
\* suspended in is over: asyncio raises CancelledError at that await, which
\* no except clause of request catches and tenacity passes to its retry
\* predicate like any other exception.
Cancel(elapsed) ==
    /\ req.pc \in SuspensionPoints
    /\ loop_time' = IF req.pc = "Attempting" THEN loop_time + elapsed
                    ELSE Min(loop_time + elapsed, req.wake_at)
    /\ Settle([req EXCEPT !.cancelled = req.pc],
              Exc("CancelledError", Nothing, Nothing))
    /\ UNCHANGED <<last_request_time, calls>>
    /\ UNCHANGED exceptHttp

HttpCancelNext ==
    \/ \E gap \in 0..MaxGap : StartRequest(gap)
    \/ \E o \in Outcomes, latency \in 0..MaxLatency : Transport(o, latency)
    \/ \E oversleep \in 0..MaxOversleep : Wake(oversleep)
    \/ \E elapsed \in 0..MaxLatency : Cancel(elapsed)
    \/ Return

----------------------------------------------------------------------------
(***************************************************************************)
(* Callers of BaseAPIClient._rate_limit_wait sharing one client            *)
(***************************************************************************)

\* Tasks that call the limiter, grants followed, the last tick of the clock.
NumTasks  == 2
MaxGrants == 3
MaxTime   == 8

Tasks == 1..NumTasks

RateInitial ==
    /\ rl = [t \in Tasks |-> [pc |-> "idle", wake_at |-> 0]]
    /\ grants = <<>>

Sleeping == { t \in Tasks : rl[t].pc = "sleeping" }

\* Task t calls _rate_limit_wait: lines 101-105 run without suspension; when
\* no sleep is needed line 108 follows at once and the call returns.
RateLimitCall(t) ==
    /\ rl[t].pc = "idle"
    /\ Len(grants) + Cardinality(Sleeping) < MaxGrants
    /\ LET d == RateLimitSleep(loop_time, last_request_time)
       IN  IF d > 0
           THEN /\ rl' = [rl EXCEPT ![t] = [pc |-> "sleeping", wake_at |-> loop_time + d]]
                /\ UNCHANGED <<last_request_time, grants>>
           ELSE /\ last_request_time' = loop_time
                /\ grants' = Append(grants, loop_time)
                /\ UNCHANGED rl
    /\ UNCHANGED loop_time
    /\ UNCHANGED exceptRate

\* A call made while no other call is inside the limiter.
RateLimitCallSeq(t) ==
    /\ Sleeping = {}
    /\ RateLimitCall(t)

\* The sleep of line 106 is over: line 108 runs and the call returns.
RateLimitWake(t) ==
    /\ rl[t].pc = "sleeping"
    /\ loop_time >= rl[t].wake_at
    /\ last_request_time' = loop_time
    /\ grants' = Append(grants, loop_time)
    /\ rl' = [rl EXCEPT ![t] = [pc |-> "idle", wake_at |-> 0]]
    /\ UNCHANGED loop_time
    /\ UNCHANGED exceptRate

\* The loop clock advances; a due sleeper is woken at most MaxOversleep late.
TimePasses ==
    /\ loop_time < MaxTime
    /\ \A t \in Sleeping : loop_time < rl[t].wake_at + MaxOversleep
    /\ loop_time' = loop_time + 1
    /\ UNCHANGED <<last_request_time, rl, grants>>
    /\ UNCHANGED exceptRate

RateNext ==
    \/ \E t \in Tasks : RateLimitCall(t)
    \/ \E t \in Tasks : RateLimitWake(t)
    \/ TimePasses

RateSeqNext ==
    \/ \E t \in Tasks : RateLimitCallSeq(t)
    \/ \E t \in Tasks : RateLimitWake(t)
    \/ TimePasses

----------------------------------------------------------------------------
(***************************************************************************)
(* SevdeskClient: the operations and settings.dry_run                      *)
(***************************************************************************)

\* Requests one run may send before it ends.
MaxSent == 3

\* A request handed to BaseAPIClient.request.
SevRequest(method, endpoint) == [method |-> method, endpoint |-> endpoint]
NoSevRequest == SevRequest("none", "")

\* What an operation does: the request it makes, or the value it returns
\* without one.
Sends(method, endpoint) == [request |-> SevRequest(method, endpoint), returned |-> "objects"]
DryRun(value) == [request |-> NoSevRequest, returned |-> value]

\* The operations of SevdeskClient, given settings.dry_run.
get_contact_by_email(dry_run) == Sends("GET", "/Contact")

create_contact(dry_run) == Sends("POST", "/Contact")

create_invoice(dry_run) ==
    IF dry_run THEN DryRun("dry-run-invoice-id")
    ELSE Sends("POST", "/Invoice/Factory/saveInvoice")

create_voucher(dry_run) ==
    IF dry_run THEN DryRun("dry-run-voucher-id")
    ELSE Sends("POST", "/Voucher/Factory/saveVoucher")

upload_document(dry_run) ==
    IF dry_run THEN DryRun("dry-run-document-id")
    ELSE Sends("POST", "/Document")

book_invoice(dry_run) ==
    IF dry_run THEN DryRun("DRY-2025-0001")
    ELSE Sends("PUT", "/Invoice/{invoice_id}/bookAmount")

create_invoice_payment(dry_run) ==
    IF dry_run THEN DryRun("dry-run-payment-id")
    ELSE Sends("POST", "/InvoicePayment")

SevOperations ==
    {"get_contact_by_email", "create_contact", "create_invoice", "create_voucher",
     "upload_document", "book_invoice", "create_invoice_payment"}

SevOperation(op, dry_run) ==
    CASE op = "get_contact_by_email"   -> get_contact_by_email(dry_run)
      [] op = "create_contact"         -> create_contact(dry_run)
      [] op = "create_invoice"         -> create_invoice(dry_run)
      [] op = "create_voucher"         -> create_voucher(dry_run)
      [] op = "upload_document"        -> upload_document(dry_run)
      [] op = "book_invoice"           -> book_invoice(dry_run)
      [] op = "create_invoice_payment" -> create_invoice_payment(dry_run)

\* No operation called yet.
NoSevCall == [op |-> "none", dry_run |-> FALSE, requests |-> <<>>, returned |-> "none"]

\* A client of a process whose settings have the default dry_run = False.
SevInitial == sev = [dry_run |-> FALSE, sent |-> <<>>, call |-> NoSevCall]

\* settings.dry_run is given another value.
SetDryRun(b) ==
    /\ b # sev.dry_run
    /\ sev' = [sev EXCEPT !.dry_run = b]
    /\ UNCHANGED exceptSev

\* One operation is called. A request it makes is transmitted once per
\* attempt of BaseAPIClient.request; the call returns the response's
\* objects when the last attempt succeeds and raises otherwise.
SevCall(op, attempts, ok) ==
    LET plan == SevOperation(op, sev.dry_run)
        made == IF plan.request = NoSevRequest THEN <<>>
                ELSE [i \in 1..attempts |-> plan.request]
    IN  /\ plan.request = NoSevRequest => (attempts = 1 /\ ok)
        /\ Len(sev.sent) + Len(made) <= MaxSent
        /\ sev' = [sev EXCEPT
                     !.sent = sev.sent \o made,
                     !.call = [op |-> op, dry_run |-> sev.dry_run, requests |-> made,
                               returned |-> IF ok THEN plan.returned ELSE "raised"]]
        /\ UNCHANGED exceptSev

SevNext ==
    \/ \E b \in BOOLEAN : SetDryRun(b)
    \/ \E op \in SevOperations, attempts \in 1..max_retry_attempts, ok \in BOOLEAN :
          SevCall(op, attempts, ok)

----------------------------------------------------------------------------
(***************************************************************************)
(* EtsyClient.paginate_all                                                 *)
(***************************************************************************)

\* batch_size is 1..MaxBatch, max_results is None (0 here, as falsy) or
\* 1..MaxResults, a page holds 0..MaxPage results, and a call fetches at most
\* MaxPages pages.
MaxBatch == 3
MaxResults == 4
MaxPage == 4
MaxPages == 3

\* No call of paginate_all in progress.
PageIdle ==
    pg = [pc |-> "idle", batch_size |-> 1, max_results |-> 0, all_results |-> 0,
          offset |-> 0, fetched |-> <<>>, returned |-> 0]

\* paginate_all(fetch_func, batch_size, max_results) is called:
\* all_results = [], offset = 0.
PaginateAll(batch_size, max_results) ==
    /\ pg.pc # "fetching"
    /\ pg' = [pc |-> "fetching", batch_size |-> batch_size, max_results |-> max_results,
              all_results |-> 0, offset |-> 0, fetched |-> <<>>, returned |-> 0]
    /\ UNCHANGED exceptPg

\* One turn of the loop: fetch_func(limit=batch_size, offset=offset) answers
\* with n results, which are appended; the loop ends on an empty or short
\* page, or ends with the list cut to max_results once it is that long, or
\* goes on at the next offset.  fetched records the (limit, offset) pairs.
FetchPage(n) ==
    LET all   == pg.all_results + n
        asked == Append(pg.fetched, [limit |-> pg.batch_size, offset |-> pg.offset])
    IN  /\ pg.pc = "fetching"
        /\ Len(pg.fetched) < MaxPages
        /\ pg' = IF n = 0 \/ n < pg.batch_size
                 THEN [pg EXCEPT !.pc = "returned", !.fetched = asked,
                                 !.all_results = all, !.returned = all]
                 ELSE IF pg.max_results # 0 /\ all >= pg.max_results
                 THEN [pg EXCEPT !.pc = "returned", !.fetched = asked,
                                 !.all_results = pg.max_results,
                                 !.returned = pg.max_results]
                 ELSE [pg EXCEPT !.fetched = asked, !.all_results = all,
                                 !.offset = pg.offset + pg.batch_size]
        /\ UNCHANGED exceptPg

PageNext ==
    \/ \E batch_size \in 1..MaxBatch, max_results \in 0..MaxResults :
          PaginateAll(batch_size, max_results)
    \/ \E n \in 0..MaxPage : FetchPage(n)

----------------------------------------------------------------------------
(***************************************************************************)
(* SevDeskCSVExporter.export_invoices                                      *)
(***************************************************************************)

\* _format_decimal(value): f"{value:.2f}" of a Decimal, which rounds a tie to
\* the even neighbour; the result in cents.
format_decimal(value) == QuantizeHalfEven(value, 2)

\* A price as Etsy gives it: {amount, divisor}.
Price(amount, divisor) == [amount |-> amount, divisor |-> divisor]
NoPrice == Price(0, 0)
Prices == {Price(a, d) : a \in {0, 495, 1990}, d \in {1, 10, 100}}

\* The orders exported: total_amount and tax_amount in cents, one
\* transaction, and total_shipping_cost or none.
OrderTotals ==
    {[total_amount |-> 4475, tax_amount |-> 714], [total_amount |-> 1000, tax_amount |-> 0],
     [total_amount |-> 0, tax_amount |-> 0], [total_amount |-> 1190, tax_amount |-> 190]}

Orders ==
    [totals : OrderTotals, quantity : {1, 2}, price : Prices,
     total_shipping_cost : Prices \cup {NoPrice}]

\* tax_rate = (total_tax / total_net * 100).quantize(Decimal("0.1")) when
\* total_net > 0, else Decimal("0"); quantize rounds a tie to even.
TaxRateOf(totals) ==
    LET total_net == totals.total_amount - totals.tax_amount
    IN  IF total_net > 0
        THEN Dec(QuantizeHalfEven(DecMul(DecDiv(CentsDec(totals.tax_amount),
                                                CentsDec(total_net)),
                                         Dec(100, 1)), 1), 10)
        ELSE Dec(0, 1)

\* A variant that divides the amount by the divisor only.
GrossByDivisor(price) == DecDiv(Dec(price.amount, 1), Dec(price.divisor, 1))

\* item_gross = Decimal(str(amount)) / Decimal("100"), then
\* item_gross = item_gross / item_divisor
GrossOfPrice(price) ==
    DecDiv(DecDiv(Dec(price.amount, 1), Dec(100, 1)), Dec(price.divisor, 1))

\* item_tax = (item_gross * tax_rate / (100 + tax_rate)).quantize(0.01), in
\* cents
TaxOfGross(gross, tax_rate) ==
    QuantizeHalfEven(DecDiv(DecMul(gross, tax_rate), DecAdd(Dec(100, 1), tax_rate)), 2)

\* The row of one position; the amounts as written, in cents.
CsvRow(position, quantity, price, tax_rate) ==
    LET gross == GrossOfPrice(price)
        tax   == CentsDec(TaxOfGross(gross, tax_rate))
        net   == DecAdd(gross, Dec(-tax.num, tax.den))
    IN  [Position |-> position, Menge |-> quantity, price |-> price,
         Einzelpreis |-> format_decimal(DecDiv(net, Dec(quantity, 1))),
         Netto |-> format_decimal(net), Steuersatz |-> tax_rate,
         Steuer |-> format_decimal(tax), Brutto |-> format_decimal(gross)]

\* The rows of one order: the transaction, then the shipping when it is
\* given and its gross amount is positive.
RowsOfOrder(order) ==
    LET tax_rate == TaxRateOf(order.totals)
        shipping == order.total_shipping_cost
    IN  <<CsvRow("Produkt", order.quantity, order.price, tax_rate)>>
        \o IF shipping # NoPrice /\ GrossOfPrice(shipping).num > 0
           THEN <<CsvRow("Versand", 1, shipping, tax_rate)>>
           ELSE <<>>

\* Nothing exported.
CsvIdle == csv = [order |-> CHOOSE o \in Orders : TRUE, exported |-> FALSE, rows |-> <<>>]

\* An order about to be exported.
CsvOrderInit == csv \in [order : Orders, exported : {FALSE}, rows : {<<>>}]

\* export_invoices([order])
ExportInvoices ==
    /\ ~csv.exported
    /\ csv' = [csv EXCEPT !.exported = TRUE, !.rows = RowsOfOrder(csv.order)]
    /\ UNCHANGED exceptCsv

----------------------------------------------------------------------------
(***************************************************************************)
(* Specifications                                                          *)
(***************************************************************************)

vars == <<coreVars, appVars>>

\* Every part at rest.
KeyRest    == KeyIdle
AppRest    == SevInitial /\ PageIdle /\ CsvIdle
IdemRest   == IdemInitial /\ ApiInitial
CurRest    == CurIdle /\ FxInitial
ClientRest == ClientInitial /\ HttpInitial /\ RateInitial
CoreRest   == KeyRest /\ IdemRest /\ ClientRest /\ CurRest

\* SevdeskClient: operations called one after the other.
SevInit == SevInitial /\ PageIdle /\ CsvIdle /\ CoreRest

SpecSev == SevInit /\ [][SevNext]_vars

\* EtsyClient.paginate_all: calls one after the other.
PageInit == PageIdle /\ SevInitial /\ CsvIdle /\ CoreRest

SpecPage == PageInit /\ [][PageNext]_vars

\* SevDeskCSVExporter.export_invoices: the export of one order.
CsvInit == CsvOrderInit /\ SevInitial /\ PageIdle /\ CoreRest

SpecCsv == CsvInit /\ [][ExportInvoices]_vars

\* Concurrent attempts sharing the store.
IdemInit == IdemInitial /\ ApiInitial /\ KeyRest /\ ClientRest /\ CurRest /\ AppRest

SpecIdem == IdemInit /\ [][IdemNext]_vars

\* Sequential attempts of the scope pattern, with crashes.
SpecRetry == IdemInit /\ [][RetryNext]_vars

\* Sequential attempts whose bodies call get_cached_result freely.
SpecScope == IdemInit /\ [][ScopeNext]_vars

\* Sequential invocations, scopes and wrapped calls.
SpecInvoke == IdemInit /\ [][InvokeNext]_vars

\* Concurrent attempts sharing the store with callers of delete.
IdemDeleteInit == IdemInitial /\ ApiInitial /\ KeyRest /\ ClientRest /\ CurRest /\ AppRest

SpecIdemDelete == IdemDeleteInit /\ [][IdemDeleteNext]_vars

\* Scopes and wrapped calls one after the other.
ScopeInvokeInit == IdemInitial /\ ApiInitial /\ KeyRest /\ ClientRest /\ CurRest /\ AppRest

SpecScopeInvoke == ScopeInvokeInit /\ [][ScopeInvokeNext]_vars

\* idempotent(ttl_hours=h): calls of a function decorated with some h.
DecoratedInit == DecoratedInitial /\ ApiInitial /\ KeyRest /\ ClientRest /\ CurRest /\ AppRest

SpecDecorated == DecoratedInit /\ [][WrappedNext]_vars

\* idempotent: calls of wrapped functions.
WrappedInit == IdemInitial /\ ApiInitial /\ KeyRest /\ ClientRest /\ CurRest /\ AppRest

SpecWrapped == WrappedInit /\ [][WrappedNext]_vars

\* Calls of generate_idempotency_key.
KeyCallInit == KeyInit /\ IdemRest /\ ClientRest /\ CurRest /\ AppRest

SpecKey == KeyCallInit /\ [][CallGenerateKey]_vars

\* request calls one after the other on one client.
HttpInit == ClientInitial /\ HttpInitial /\ RateInitial /\ KeyRest /\ IdemRest /\ CurRest /\ AppRest

SpecHttp == HttpInit /\ [][HttpNext]_vars

\* BaseAPIClient.request: calls by one caller that may cancel them.
HttpCancelInit ==
    ClientInitial /\ HttpInitial /\ RateInitial /\ KeyRest /\ IdemRest /\ CurRest /\ AppRest

SpecHttpCancel == HttpCancelInit /\ [][HttpCancelNext]_vars

\* Concurrent callers of the rate limiter.
RateInit == ClientInitial /\ RateInitial /\ HttpInitial /\ KeyRest /\ IdemRest /\ CurRest /\ AppRest

SpecRate == RateInit /\ [][RateNext]_vars

\* Callers of the rate limiter one after the other.
SpecRateSeq == RateInit /\ [][RateSeqNext]_vars

\* Direct calls of the store one after the other.
StoreInit == IdemInitial /\ ApiInitial /\ KeyRest /\ ClientRest /\ CurRest /\ AppRest

SpecStore == StoreInit /\ [][StoreNext]_vars

\* Calls of the rounding and tax functions.
CurrencyInit == CurCallInit /\ FxInitial /\ KeyRest /\ IdemRest /\ ClientRest /\ AppRest

SpecCurrency == CurrencyInit /\ [][CurrencyNext]_vars

\* Calls of the store from concurrent threads.
SpecStoreThreads == StoreInit /\ [][ThreadsNext]_vars

\* Exchange rates: get_rate calls on one provider instance.
RatesInit == FxProviderInit /\ CurIdle /\ KeyRest /\ IdemRest /\ ClientRest /\ AppRest

SpecRates == RatesInit /\ [][RatesNext]_vars

\* Exchange rates: provider selection and convert_currency.
ConvertInit == FxInitial /\ CurIdle /\ KeyRest /\ IdemRest /\ ClientRest /\ AppRest

SpecConvert == ConvertInit /\ [][ConvertNext]_vars

----------------------------------------------------------------------------
(***************************************************************************)
(* Claims about the idempotency mechanism                                  *)
(***************************************************************************)

\* Two executions of the side effect for key lie inside one TTL window.
ExecutedTwiceInWindow(key) ==
    \E i, j \in 1..Len(exec_log[key]) :
        i < j /\ exec_log[key][j] - exec_log[key][i] <= ttl_hours

\* C1: for callers that follow the IdempotentOperation pattern, under any
\* sequence of retries and crashes of attempts for the same key inside the TTL
\* window, the side effect for that key is executed at most once.
C1_AtMostOnce == \A k \in Keys : ~ExecutedTwiceInWindow(k)

\* C2: once a result has been stored under the key, every later invocation
\* within the TTL window (a new IdempotentOperation scope, or a call of an
\* `idempotent`-wrapped function) returns that stored result verbatim and does
\* not execute the side effect again, whatever value the result is.
C2_StoredResultReturned ==
    /\ \A s \in Scopes :
          ops[s].entry_live =>
             /\ ops[s].pc \notin {"executed", "stored"}
             /\ ops[s].pc = "cached" => ops[s].result = ops[s].entry_value
    /\ (last_call.called /\ last_call.had_entry) =>
          /\ ~last_call.executed
          /\ last_call.returned = last_call.entry_value

----------------------------------------------------------------------------
(***************************************************************************)
(* Claims about generate_idempotency_key                                   *)
(***************************************************************************)

KeyCalls == [prefix : Prefixes, args : AllArgs, kwargs : AllKwargs]

\* Two call sites pass the same logical arguments: the same prefix, the same
\* positional values, the same keyword/value pairs in whatever order.
SameLogicalCall(c1, c2) ==
    /\ c1.prefix = c2.prefix
    /\ c1.args = c2.args
    /\ KwDict(c1.kwargs) = KwDict(c2.kwargs)

KeyOf(c) == generate_idempotency_key(c.prefix, c.args, c.kwargs)

\* C3: generate_idempotency_key returns the identical key for the same prefix
\* and the same logical arguments whatever the order of the keyword arguments
\* at the call site, a different key when an argument value differs, and the
\* key has the form prefix:16-hex-digits.
C3_KeyDeterministic ==
    key_out # NoKey =>
        /\ \A c \in KeyCalls :
              SameLogicalCall(c, key_call) <=> KeyOf(c) = key_out
        /\ key_out[1] = key_call.prefix
        /\ key_out[2] = ":"
        /\ key_out[3].hexdigits = 16

\* A call whose keyword arguments were passed in another order than the sorted
\* one has returned its key.
C3_Witness ==
    /\ key_out # NoKey
    /\ Len(key_call.kwargs) = 2
    /\ key_call.kwargs[1][1] = "order_id"
    /\ key_call.kwargs[2][1] = "amount"

----------------------------------------------------------------------------
(***************************************************************************)
(* Claims about BaseAPIClient.request                                      *)
(***************************************************************************)

Last(seq) == seq[Len(seq)]

\* The outcome of the latest HTTP attempt of the call in progress.
Attempted   == req.outcomes # <<>>
LastOutcome == Last(req.outcomes)

IsTransient(o)     == o.kind \in NetworkFailures
IsRateLimited(o)   == o.kind = "response" /\ o.status = 429
IsAuthFailure(o)   == o.kind = "response" /\ o.status \in {401, 403}
IsOtherHttpError(o) ==
    /\ o.kind = "response"
    /\ ~IsSuccess(o.status)
    /\ o.status \notin {429, 401, 403}

\* The backoff waits of the call, in order.
RECURSIVE BackoffWaits(_)
BackoffWaits(sleeps) ==
    IF sleeps = <<>> THEN <<>>
    ELSE IF Head(sleeps)[1] = "backoff"
         THEN <<Head(sleeps)[2]>> \o BackoffWaits(Tail(sleeps))
         ELSE BackoffWaits(Tail(sleeps))

\* C4: when the transport fails with a transient network error on the first
\* k attempts (k < max attempts) and then succeeds, request returns the
\* success after exactly k retries, having waited min(base * 2^(n-1), max_wait)
\* before retry n; a transient error reaches the caller only after the
\* attempts are exhausted.
C4_TransientRetried ==
    /\ (req.pc = "Fatal" /\ IsTransient(LastOutcome)) =>
           Len(req.outcomes) = max_retry_attempts
    /\ (req.pc = "Success" /\
        \A i \in 1..(Len(req.outcomes) - 1) : IsTransient(req.outcomes[i])) =>
           BackoffWaits(req.sleeps) =
               [n \in 1..(Len(req.outcomes) - 1) |-> BackoffSeconds(n) * TicksPerSecond]

\* C5: after a response with status 429 (Retry-After in seconds, or absent)
\* request waits for the Retry-After duration and then retries; the call fails
\* on a 429 only when the attempts are exhausted.
C5_RateLimitRetried ==
    (Attempted /\ IsRateLimited(LastOutcome) /\ LastOutcome.retry_after.numeric) =>
        /\ req.pc \in {"RateLimitWait", "RateLimiting", "Attempting", "Fatal"}
        /\ req.pc = "RateLimitWait" =>
              Last(req.sleeps) = <<"retry_after", HandleOutcome(LastOutcome).seconds * TicksPerSecond>>
        /\ req.pc = "Fatal" => Len(req.outcomes) = max_retry_attempts

\* C6: a response with status 401 or 403 makes request raise
\* AuthenticationError after exactly one attempt: no retry is scheduled and
\* no backoff wait happens.
C6_AuthNotRetried ==
    (Attempted /\ IsAuthFailure(LastOutcome)) =>
        /\ req.pc = "Fatal"
        /\ req.raised = Exc("AuthenticationError", Some(LastOutcome.status), Nothing)
        /\ Len(req.outcomes) = 1
        /\ \A i \in 1..Len(req.sleeps) : req.sleeps[i][1] = "rate_limit"

\* A call has failed on a 403.
C6_Witness ==
    /\ req.pc = "Fatal"
    /\ LastOutcome.status = 403
    /\ req.raised.type = "AuthenticationError"

\* C7: a non-2xx response other than 429, 401, 403 is not retried and makes
\* request raise an APIError that carries the status code and the parsed
\* body when there is a body (None when there is none).
C7_ApiErrorCarriesBody ==
    (Attempted /\ IsOtherHttpError(LastOutcome)) =>
        /\ req.pc = "Fatal"
        /\ Len(req.outcomes) = 1
        /\ req.raised.type = "APIError"
        /\ req.raised.status_code = Some(LastOutcome.status)
        /\ LastOutcome.body = "" => req.raised.response = Nothing
        /\ IsJson(LastOutcome.body) =>
              req.raised.response = Some(ParsedJson(LastOutcome.body))

\* The state of the claimed machine a position of the call belongs to: the
\* rate-limiter pass is part of the attempt.
MachineState(pc) == IF pc = "RateLimiting" THEN "Attempting" ELSE pc

\* The edges of Idle -> Attempting -> {Success | RetryWait -> Attempting |
\* RateLimitWait -> Attempting | Fatal}; a finished call is followed by Idle.
MachineEdges ==
    { <<"Idle", "Attempting">>,
      <<"Attempting", "Success">>, <<"Attempting", "Fatal">>,
      <<"Attempting", "RetryWait">>, <<"Attempting", "RateLimitWait">>,
      <<"RetryWait", "Attempting">>, <<"RateLimitWait", "Attempting">>,
      <<"Success", "Idle">>, <<"Fatal", "Idle">> }

\* A step of the call along the machine; a wait may end in Fatal only when
\* the attempts are exhausted.
MachineStep ==
    LET from == MachineState(req.pc)
        to   == MachineState(req'.pc)
    IN  \/ from = to
        \/ <<from, to>> \in MachineEdges
        \/ /\ from \in {"RetryWait", "RateLimitWait"}
           /\ to = "Fatal"
           /\ req.attempt_number >= max_retry_attempts

\* C8: every request call follows the state machine Idle -> Attempting ->
\* {Success | RetryWait -> Attempting | RateLimitWait -> Attempting | Fatal}
\* and makes at most max_retry_attempts HTTP attempts.
C8_StateMachine ==
    /\ [](Len(req.outcomes) <= max_retry_attempts)
    /\ [][MachineStep]_vars

\* The time passed between the latest set of the key and the observed call.
SinceSet(key) == api.at - last_set[key].at

\* C12: set(k, r) followed by get(k) returns r as long as the time passed since
\* the set is within the TTL; once the clock is past the TTL, get(k) returns
\* None and k is no longer in the store.
C12_SetThenGet ==
    (api.op = "get" /\ last_set[api.key].set) =>
        IF SinceSet(api.key) <= ttl_hours
        THEN /\ api.returned = last_set[api.key].result
             /\ store = api.before
        ELSE /\ api.returned = None
             /\ api.key \notin DOMAIN store

\* A get found the entry of an earlier set expired, returned None and removed
\* the entry.
C12_Witness ==
    /\ api.op = "get"
    /\ last_set[api.key].set
    /\ last_set[api.key].result # None
    /\ SinceSet(api.key) > ttl_hours
    /\ api.returned = None
    /\ api.key \in DOMAIN api.before
    /\ api.key \notin DOMAIN store

\* C13: set on a key that already holds an entry replaces the value and stamps
\* the entry with the current time, leaving the other keys alone; a later get
\* returns the latest value for as long as the latest set is within the TTL.
C13_SetOverwrites ==
    /\ (api.op = "set" /\ api.key \in DOMAIN api.before) =>
          /\ DOMAIN store = DOMAIN api.before
          /\ store[api.key] = [stored_time |-> api.at, result |-> api.value]
          /\ \A k \in DOMAIN store \ {api.key} : store[k] = api.before[k]
    /\ (api.op = "get" /\ last_set[api.key].sets >= 2
                       /\ SinceSet(api.key) <= ttl_hours) =>
          api.returned = last_set[api.key].result

\* A key was set twice; a get later than the TTL after the first set, but
\* within the TTL of the second, returned the second value.
C13_Witness ==
    /\ api.op = "get"
    /\ last_set[api.key].sets >= 2
    /\ api.at - last_set[api.key].first > ttl_hours
    /\ SinceSet(api.key) <= ttl_hours
    /\ api.returned = last_set[api.key].result
    /\ api.returned # None

\* C14: cleanup_expired removes exactly the entries older than the TTL at the
\* time of the call, leaves every other entry unchanged and returns the
\* number of entries it removed.
C14_CleanupExact ==
    api.op = "cleanup" =>
        LET old == { k \in DOMAIN api.before :
                        api.at - api.before[k].stored_time > ttl_hours }
        IN  /\ DOMAIN store = DOMAIN api.before \ old
            /\ \A k \in DOMAIN store : store[k] = api.before[k]
            /\ api.count = Cardinality(old)

\* A sweep removed one entry and left another, exactly at the TTL, in place.
C14_Witness ==
    /\ api.op = "cleanup"
    /\ api.count = 1
    /\ \E k \in DOMAIN store : api.at - store[k].stored_time = ttl_hours

\* C15: under any interleaving of the steps of concurrent get, set, delete and
\* cleanup_expired calls, no call fails with an internal error and the store
\* stays a map from key to (timestamp, result).
C15_ConcurrentCallsSafe ==
    /\ \A t \in Threads : thr[t].error = "none"
    /\ \A k \in DOMAIN store :
          /\ k \in Keys
          /\ store[k].stored_time \in 0..clock
          /\ store[k].result \in ApiResults

\* C16: inside a scope, where the caller decides whether to run the side
\* effect, should_execute() is true if and only if the store held no unexpired
\* result for the key when the scope was entered.
C16_ShouldExecuteIffAbsent ==
    \A s \in Scopes :
        ops[s].pc = "entered" => (should_execute(ops[s]) <=> ~ops[s].entry_live)

\* C17: get_cached_result() raises IdempotencyError when the scope has no
\* cached result, and returns the result when one was found at entry or was
\* passed to store_result earlier in the scope; store_result also persists the
\* result in the store under the key.
C17_GetCachedResult ==
    \A s \in Scopes :
        /\ ops[s].pc = "stored" =>
               /\ ops[s].key \in DOMAIN store
               /\ store[ops[s].key].result = ops[s].result
        /\ ops[s].got # "none" =>
               IF ops[s].got_at = "stored"
               THEN ops[s].got = "returned" /\ ops[s].got_value = ops[s].result
               ELSE IF ops[s].entry_live
               THEN ops[s].got = "returned" /\ ops[s].got_value = ops[s].entry_value
               ELSE ops[s].got = "raised"

\* C11: every HTTP attempt of request, the first one and every retry, is
\* preceded by its own pass through _rate_limit_wait: the n-th attempt is
\* sent only after the n-th pass of the call has returned.
C11_LimiterBeforeAttempt ==
    /\ Len(req.outcomes) <= req.passes
    /\ req.pc = "Attempting" => req.passes = req.attempt_number
    /\ req.pc = "RateLimiting" => req.passes = req.attempt_number - 1

\* An attempt was sent after a limiter pass that had to sleep.
C11_Witness ==
    /\ Attempted
    /\ req.passes = 1
    /\ req.sleeps # <<>>
    /\ Head(req.sleeps)[1] = "rate_limit"

----------------------------------------------------------------------------
(***************************************************************************)
(* Claims about the rounding and tax functions                             *)
(***************************************************************************)

\* The call of fn has returned.
Returns(fn) == cur.fn = fn /\ cur.done

\* r is the integer nearest to p / q (q > 0), a tie going away from zero.
IsHalfUpOf(r, p, q) ==
    /\ 2 * Abs(r * q - p) <= q
    /\ 2 * Abs(r * q - p) = q => Abs(r * q) > Abs(p)

\* The tax rates of the round-trip guarantee.
CommonRates == {7, 19, 20}

\* C18 as stated: for every gross amount g of whole cents and every tax rate
\* r in {7, 19, 20}, calculate_gross_from_net(calculate_net_from_gross(g, r), r)
\* is g.
C18_RoundTripExact ==
    (Returns("roundtrip") /\ cur.rate \in CommonRates) => cur.back = cur.amount

\* C18 amended: the round trip ends within one cent of g, and at g itself
\* whenever g / (1 + r/100) is a whole number of cents.
C18_RoundTripWithinCent ==
    (Returns("roundtrip") /\ cur.rate \in CommonRates) =>
        /\ Abs(cur.back - cur.amount) <= 1
        /\ (cur.amount * 100) % (100 + cur.rate) = 0 => cur.back = cur.amount

\* The round trip of the unit test: 119.00 at 19% goes to 100.00 and back.
C18_Witness ==
    /\ Returns("roundtrip")
    /\ cur.amount = 11900 /\ cur.rate = 19
    /\ cur.result = 10000 /\ cur.back = 11900

\* C19: round_currency(amount, decimals) is the multiple of 10^-decimals
\* nearest to amount, a tie going away from zero (10.125 -> 10.13, 10.123 ->
\* 10.12, 10.999 -> 11.00), and an amount already at that scale keeps its value.
C19_RoundHalfUp ==
    Returns("round_currency") =>
        /\ IsHalfUpOf(cur.result, cur.amount * Pow10(cur.decimals), Pow10(cur.scale))
        /\ cur.scale <= cur.decimals =>
               cur.result = cur.amount * Pow10(cur.decimals - cur.scale)
        /\ (cur.scale = 3 /\ cur.decimals = 2) =>
               /\ cur.amount = 10125 => cur.result = 1013
               /\ cur.amount = 10123 => cur.result = 1012
               /\ cur.amount = 10999 => cur.result = 1100

\* A tie was rounded: 10.125 to 10.13.
C19_Witness ==
    /\ Returns("round_currency")
    /\ cur.amount = 10125 /\ cur.scale = 3 /\ cur.decimals = 2
    /\ cur.result = 1013

\* C20: for whole-cent amounts and integer tax rates, calculate_net_from_gross,
\* calculate_gross_from_net and calculate_tax_amount are the exact values of
\* gross / (1 + r/100), net * (1 + r/100) and net * r/100 rounded half-up to
\* 2 decimals (119.00 at 19% -> 100.00 net, 107.00 at 7% -> 100.00 net,
\* 100.00 at 19% -> 119.00 gross and 19.00 tax).
C20_TaxArithmetic ==
    /\ Returns("net_from_gross") =>
          /\ IsHalfUpOf(cur.result, cur.amount * 100, 100 + cur.rate)
          /\ (cur.amount = 11900 /\ cur.rate = 19) => cur.result = 10000
          /\ (cur.amount = 10700 /\ cur.rate = 7) => cur.result = 10000
    /\ Returns("gross_from_net") =>
          /\ IsHalfUpOf(cur.result, cur.amount * (100 + cur.rate), 100)
          /\ (cur.amount = 10000 /\ cur.rate = 19) => cur.result = 11900
    /\ Returns("tax_amount") =>
          /\ IsHalfUpOf(cur.result, cur.amount * cur.rate, 100)
          /\ (cur.amount = 10000 /\ cur.rate = 19) => cur.result = 1900

\* A net amount that needed rounding: 1.00 gross at 19% is 0.84 net.
C20_Witness ==
    /\ Returns("net_from_gross")
    /\ cur.amount = 100 /\ cur.rate = 19
    /\ cur.result = 84

----------------------------------------------------------------------------
(***************************************************************************)
(* Claims about the rate limiter                                           *)
(***************************************************************************)

\* C9: for any interleaving of concurrent callers sharing one client, no two
\* callers are granted a request slot less than 1/rate_limit seconds apart.
C9_GrantsSpaced ==
    \A i, j \in 1..Len(grants) : i < j => grants[j] - grants[i] >= min_interval

\* C10: for sequential callers, _rate_limit_wait returns only when at least
\* 1/rate_limit seconds have passed since the previous grant, sleeping for
\* the remainder otherwise, and sets the last-granted timestamp to the
\* current time on every call.
C10_SequentialPacing ==
    /\ \A i \in 1..(Len(grants) - 1) : grants[i + 1] - grants[i] >= min_interval
    /\ grants # <<>> => last_request_time = Last(grants)
    /\ \A t \in Sleeping : rl[t].wake_at = last_request_time + min_interval

\* Three calls have returned: the second had to sleep for the remainder, the
\* third came late enough not to wait.
C10_Witness ==
    /\ Len(grants) = 3
    /\ grants[2] - grants[1] = min_interval
    /\ grants[3] - grants[2] > min_interval
    /\ last_request_time = grants[3]

----------------------------------------------------------------------------
(***************************************************************************)
(* Claims about exchange rates and convert_currency                        *)
(***************************************************************************)

\* Two Decimals are the same number.
DecEq(a, b) == a.num * b.den = b.num * a.den

\* The last call was fn with from_currency # to_currency.
FxCalled(fn) == fx.call.fn = fn /\ fx.call.from_currency # fx.call.to_currency

\* The last call was fn with from_currency = to_currency.
FxCalledIdentity(fn) == fx.call.fn = fn /\ fx.call.from_currency = fx.call.to_currency

\* The tables an ECB call at the observed time can have taken its rates
\* from: the one it fetched or one its cache held.
EcbTablesOfCall ==
    {Published(fx.call.at)}
    \cup {fx.call.before.cache[k].rates : k \in DOMAIN fx.call.before.cache}

\* C21: for the ECB and manual providers and from != to, get_rate(from, to)
\* is rate(to) when from is EUR, 1/rate(from) when to is EUR, and
\* rate(to)/rate(from) otherwise, the rates being those of the table
\* relative to EUR; the manual provider takes them from the table it was
\* constructed with and does no I/O.
C21_CrossRate ==
    (FxCalled("get_rate") /\ fx.call.before.kind \in {"ecb", "manual"}) =>
        LET c == fx.call
            rates == c.res.table
        IN  /\ c.res.ok =>
                /\ c.before.kind = "ecb" => rates \in EcbTablesOfCall
                /\ c.before.kind = "manual" => rates = c.before.rates
                /\ c.from_currency = "EUR" => DecEq(c.res.value, rates[c.to_currency])
                /\ c.to_currency = "EUR" =>
                       DecEq(DecMul(c.res.value, rates[c.from_currency]), Dec(1, 1))
                /\ (c.from_currency # "EUR" /\ c.to_currency # "EUR") =>
                       DecEq(DecMul(c.res.value, rates[c.from_currency]),
                             rates[c.to_currency])
            /\ c.before.kind = "manual" =>
                /\ c.res.fetches = 0
                /\ c.res.cache_reads = 0
                /\ fx.provider = c.before

\* The manual provider has answered a request between two quoted
\* currencies: USD at 1.2 and GBP at 0.9 give 0.75.
C21_Witness ==
    /\ FxCalled("get_rate")
    /\ fx.call.res.ok
    /\ fx.call.before.kind = "manual"
    /\ fx.call.from_currency = "USD"
    /\ fx.call.to_currency = "GBP"
    /\ DecEq(fx.call.res.value, Dec(75, 100))

\* C22: for every provider variant and every currency code X, known to the
\* provider or not, with or without a date, get_rate(X, X) returns exactly 1
\* without a network fetch, a cache access or a table lookup.
C22_IdentityRate ==
    FxCalledIdentity("get_rate") =>
        /\ fx.call.res.ok
        /\ DecEq(fx.call.res.value, Dec(1, 1))
        /\ fx.call.res.fetches = 0
        /\ fx.call.res.cache_reads = 0
        /\ fx.call.res.lookups = 0
        /\ fx.provider = fx.call.before

\* An ECB provider that has cached nothing was asked for the rate of a
\* currency it does not quote to itself, at a date, while the ECB was
\* unreachable.
C22_Witness ==
    /\ FxCalledIdentity("get_rate")
    /\ fx.call.before.kind = "ecb"
    /\ fx.call.before.cache = EmptyCache
    /\ fx.call.from_currency = "JPY"
    /\ fx.call.date # NoDate
    /\ ~fx.call.fetch_ok
    /\ fx.call.res.ok

\* The provider instance the observed convert_currency call queried: the
\* installed one, or the one the call constructed, as it was constructed.
ProviderQueried ==
    IF fx.call.before # NoProvider THEN fx.call.before
    ELSE [fx.provider EXCEPT !.cache = EmptyCache]

\* What get_rate of that provider gave the observed call.
RateQueried ==
    get_rate(ProviderQueried, fx.call.from_currency, fx.call.to_currency,
             fx.call.date, fx.call.at, fx.call.fetch_ok, Published(fx.call.at)).res

\* C23: for from != to, convert_currency(amount, from, to, date) is
\* amount * get_rate(from, to, date) of the configured provider rounded
\* half-up to 2 decimals; with a manual provider configured with
\* {"USD": 1.10}, 100.00 USD are 90.91 EUR.
C23_ConvertRounded ==
    FxCalled("convert") =>
        /\ fx.call.res.ok =>
              LET product == DecMul(fx.call.amount, RateQueried.value)
              IN  /\ RateQueried.ok
                  /\ fx.call.res.value.den = 100
                  /\ IsHalfUpOf(fx.call.res.value.num, 100 * product.num, product.den)
        /\ (/\ ProviderQueried.kind = "manual"
            /\ ProviderQueried.rates = ManualTable
            /\ fx.call.amount = Dec(10000, 100)
            /\ fx.call.from_currency = "USD"
            /\ fx.call.to_currency = "EUR") =>
              /\ fx.call.res.ok
              /\ fx.call.res.value = Dec(9091, 100)

\* 12.345 EUR were converted at the ECB's 1.1 USD: 13.5795 became 13.58.
C23_Witness ==
    /\ FxCalled("convert")
    /\ fx.call.res.ok
    /\ ProviderQueried.kind = "ecb"
    /\ fx.call.amount = Dec(12345, 1000)
    /\ fx.call.from_currency = "EUR"
    /\ fx.call.to_currency = "USD"
    /\ fx.call.res.value = Dec(1358, 100)

\* C24: convert_currency(a, X, X) returns a unchanged, digit for digit, for
\* every amount a and currency X; no provider is constructed or queried.
C24_IdentityConvert ==
    FxCalledIdentity("convert") =>
        /\ fx.call.res.ok
        /\ fx.call.res.value = fx.call.amount
        /\ fx.call.provider_calls = 0
        /\ fx.call.rate_calls = 0
        /\ fx.call.constructed = 0
        /\ fx.call.res.fetches = 0
        /\ fx.provider = fx.call.before

\* 12.345 in a currency no table quotes came back with its three decimals,
\* while no provider was installed and the settings named Fixer without a
\* key.
C24_Witness ==
    /\ FxCalledIdentity("convert")
    /\ fx.call.amount = Dec(12345, 1000)
    /\ fx.call.from_currency = "JPY"
    /\ fx.call.res.value = Dec(12345, 1000)
    /\ fx.provider = NoProvider
    /\ fx.made = 0
    /\ fx.settings.exchange_rate_provider = "fixer"
    /\ ~fx.settings.fixer_api_key

\* The observed call was an ECB get_rate that needed the table of key.
EcbNeededTable(key) ==
    /\ FxCalled("get_rate")
    /\ fx.call.before.kind = "ecb"
    /\ CacheKey(fx.call.date) = key

\* The cache keys of the model.
CacheKeys == {CacheKey(d) : d \in Dates}

\* C25: once ECBProvider has fetched a table for a cache key, a get_rate call
\* for that key less than 24 hours after that fetch is answered from that
\* table without a network fetch; from 24 hours on the call attempts a fetch
\* and, when it succeeds, the entry becomes the new (timestamp, table) pair,
\* the entries of other keys staying as they were.
C25_CachedForADay ==
    \A key \in CacheKeys :
        (EcbNeededTable(key) /\ key \in DOMAIN fx.call.fetched) =>
            LET c == fx.call
                last == c.fetched[key]
            IN  /\ c.at - last.at < CACHE_DURATION =>
                    /\ c.res.fetches = 0
                    /\ c.res.table = last.rates
                    /\ fx.provider = c.before
                /\ c.at - last.at >= CACHE_DURATION =>
                    /\ c.res.fetches = 1
                    /\ c.fetch_ok =>
                          /\ fx.provider.cache[key] =
                                 [at |-> c.at, rates |-> Published(c.at)]
                          /\ c.res.table = Published(c.at)
                    /\ \A other \in DOMAIN c.before.cache \ {key} :
                          fx.provider.cache[other] = c.before.cache[other]

\* Exactly 24 hours after the fetch of the no-date table a call fetched
\* again, and the entry now holds the new day's table under the new time.
C25_Witness ==
    /\ EcbNeededTable("daily")
    /\ "daily" \in DOMAIN fx.call.fetched
    /\ fx.call.at - fx.call.fetched["daily"].at = CACHE_DURATION
    /\ fx.call.fetch_ok
    /\ fx.call.res.fetches = 1
    /\ fx.provider.cache["daily"].at = fx.call.at
    /\ fx.provider.cache["daily"].rates # fx.call.fetched["daily"].rates

\* The observed call was an ECB get_rate whose fetch failed.
EcbFetchFailed ==
    /\ FxCalled("get_rate")
    /\ fx.call.before.kind = "ecb"
    /\ fx.call.res.fetches = 1
    /\ ~fx.call.fetch_ok

\* The cached tables with the latest timestamp.
MostRecentCached(cache) ==
    {cache[k].rates : k \in {j \in DOMAIN cache : \A i \in DOMAIN cache :
                                                      cache[i].at <= cache[j].at}}

\* C26: when an ECB fetch fails, the provider falls back to the most recent
\* cached rate table if any table is cached, and lets the fetch failure
\* through only when no table is cached.
C26_FallbackToCached ==
    EcbFetchFailed =>
        IF fx.call.before.cache = EmptyCache
        THEN ~fx.call.res.ok /\ fx.call.res.error.type = "HTTPError"
        ELSE /\ fx.call.res.error.type # "HTTPError"
             /\ fx.call.res.table \in MostRecentCached(fx.call.before.cache)

\* The codes of the observed call, other than EUR, that the table the
\* provider consulted does not quote.
MissingCodes ==
    {fx.call.from_currency, fx.call.to_currency}
    \ ({"EUR"} \cup DOMAIN (IF fx.call.before.kind = "manual"
                           THEN fx.call.before.rates ELSE fx.call.res.table))

\* The observed call was a get_rate with from != to on a provider that had
\* its table and met a code the table does not quote.
MissingCodeCall ==
    /\ FxCalled("get_rate")
    /\ fx.call.before.kind \in {"ecb", "manual"}
    /\ fx.call.res.error.type # "HTTPError"
    /\ MissingCodes # {}

\* C27: get_rate(from, to) with from != to and a non-EUR code absent from
\* the provider's table returns no rate: it raises an error that identifies
\* the missing code and the provider queried, whether from is EUR, to is EUR
\* or neither is.
C27_MissingCodeError ==
    MissingCodeCall =>
        /\ ~fx.call.res.ok
        /\ fx.call.res.error.type = "ValueError"
        /\ MissingCodes \subseteq fx.call.res.error.codes
        /\ fx.call.res.error.provider # ""

\* The settings under which constructing a provider fails.
Misconfigured(settings) ==
    \/ settings.exchange_rate_provider = "fixer" /\ ~settings.fixer_api_key
    \/ settings.exchange_rate_provider = "manual" /\ settings.manual_exchange_rates = NoTable

\* This step is a call that reached get_exchange_rate_provider: the
\* settings stay, the observation is of such a call.
ProviderRequested ==
    /\ fx' # fx
    /\ fx'.settings = fx.settings
    /\ fx'.call.provider_calls = 1

\* p and q are the same provider instance.
SameInstance(p, q) == p.kind = q.kind /\ p.id = q.id /\ p.rates = q.rates

\* C28: get_exchange_rate_provider constructs a provider at most once per
\* process: once a call has succeeded, every later call returns that same
\* instance whatever the settings say by then; a call that fails on the
\* configuration (Fixer without API key, manual without rates) raises and
\* installs nothing.
C28_ProviderOnce ==
    [][ProviderRequested =>
          /\ fx'.made <= 1
          /\ fx.provider # NoProvider =>
                /\ SameInstance(fx'.provider, fx.provider)
                /\ fx'.call.constructed = 0
                /\ fx'.call.fn = "get_provider" => fx'.call.res.ok
          /\ (fx.provider = NoProvider /\ Misconfigured(fx.settings)) =>
                /\ ~fx'.call.res.ok
                /\ fx'.call.res.error.type = "ValueError"
                /\ fx'.provider = NoProvider
                /\ fx'.made = fx.made
          /\ (fx.provider = NoProvider /\ ~Misconfigured(fx.settings)) =>
                /\ fx'.provider.kind = fx.settings.exchange_rate_provider
                /\ fx'.call.constructed = 1
                /\ fx'.made = 1]_vars

\* get_exchange_rate_provider has returned the ECB provider installed
\* before the call, and the settings name the manual provider without rates.
C28_Witness ==
    /\ fx.call.fn = "get_provider"
    /\ fx.call.res.ok
    /\ fx.call.before.kind = "ecb"
    /\ SameInstance(fx.provider, fx.call.before)
    /\ fx.made = 1
    /\ Misconfigured(fx.settings)
    /\ fx.settings.exchange_rate_provider = "manual"

----------------------------------------------------------------------------
(***************************************************************************)
(* Claims about cancellation and about failures of wrapped functions       *)
(***************************************************************************)

\* C29: when the caller cancels a request call at a suspension point (the
\* rate-limit sleep, the HTTP exchange in flight, the Retry-After sleep, the
\* backoff sleep), the call ends with the cancellation and makes no further
\* attempt; the limiter's last-granted timestamp is only ever written by a
\* grant that completed, at the time of that grant, so every later grant is
\* still at least 1/rate_limit seconds after the one before.
C29_CancelStopsCall ==
    [][/\ req'.cancelled # "no" =>
              /\ req'.pc = "Fatal"
              /\ req'.raised.type = "CancelledError"
       /\ (req.cancelled = "no" /\ req'.cancelled # "no") =>
              /\ req'.cancelled \in SuspensionPoints
              /\ req'.outcomes = req.outcomes
              /\ req'.attempt_number = req.attempt_number
              /\ req'.passes = req.passes
              /\ last_request_time' = last_request_time
       /\ req.cancelled # "no" =>
              /\ req' = IdleRequest
              /\ last_request_time' = last_request_time
       /\ last_request_time' # last_request_time =>
              /\ req'.pc = "Attempting"
              /\ req'.cancelled = "no"
              /\ last_request_time' = loop_time'
              /\ last_request_time' - last_request_time >= min_interval]_vars

\* The second call was cancelled in the sleep of the limiter: it made no
\* attempt, and the timestamp is still the one of the first call's grant.
C29_Witness ==
    /\ calls = 2
    /\ req.cancelled = "RateLimiting"
    /\ req.pc = "Fatal"
    /\ req.outcomes = <<>>
    /\ req.passes = 0
    /\ last_request_time >= min_interval
    /\ loop_time - last_request_time < min_interval

\* This step is a call of a wrapped function.
WrappedCallStep == last_call' # last_call \/ exec_log' # exec_log

\* C30: when the function wrapped by `idempotent` raises, the exception
\* reaches the caller and the call stores nothing, under the operation's key
\* or any other; a call reports success only after it executed the function
\* successfully or found a stored result; and the next call with the same
\* arguments after a failure executes the function again.
C30_FailurePropagates ==
    [][WrappedCallStep =>
          LET k == last_call'.key
          IN  /\ last_call'.raised =>
                    /\ last_call'.executed
                    /\ last_call'.returned = None
                    /\ \A j \in DOMAIN store' :
                           j \in DOMAIN store /\ store'[j] = store[j]
              /\ ~last_call'.raised =>
                    \/ /\ last_call'.executed
                       /\ exec_log'[k] = Append(exec_log[k], clock)
                    \/ /\ ~last_call'.executed
                       /\ LiveEntry(store, k, clock)
                       /\ last_call'.returned = store[k].result
              /\ (last_call.called /\ last_call.raised /\ last_call.key = k) =>
                    /\ last_call'.executed
                    /\ Len(exec_log'[k]) = Len(exec_log[k]) + 1]_vars

\* The function ran twice for the key within the same hour and the store
\* holds nothing under the key: the first call failed, the next call ran the
\* function again, and it failed again.
C30_Witness ==
    /\ last_call.called
    /\ last_call.raised
    /\ last_call.key = OpKey
    /\ clock = 0
    /\ Len(exec_log[OpKey]) = 2
    /\ OpKey \notin DOMAIN store

----------------------------------------------------------------------------
(***************************************************************************)
(* Further claims about the tax helpers, the store and the scopes          *)
(***************************************************************************)

\* C38: for every net amount n of whole cents and every integer tax rate
\* r >= 0, n + calculate_tax_amount(n, r) = calculate_gross_from_net(n, r).
C38_NetPlusTaxIsGross ==
    Returns("invoice") => cur.amount + cur.result = cur.back

\* 0.50 net at 7%: the tax 0.035 rounds up to 0.04 and the gross 0.535 to
\* 0.54.
C38_Witness ==
    /\ Returns("invoice")
    /\ cur.amount = 50
    /\ cur.rate = 7
    /\ cur.result = 4
    /\ cur.back = 54

\* The age at the observed call of the entry it found under k.
AgeAtCall(k) == api.at - api.before[k].stored_time

\* C37: get and cleanup_expired agree on expiry at every clock value: get
\* treats an entry as absent (and drops it) exactly when cleanup_expired
\* called at the same time would remove it, namely when its age is strictly
\* greater than the TTL; an entry exactly TTL old is returned by get and
\* kept by cleanup_expired.
C37_GetAndCleanupAgree ==
    /\ (api.op = "get" /\ api.key \in DOMAIN api.before) =>
          /\ api.key \notin DOMAIN store <=> api.key \in ExpiredKeys(api.before, api.at)
          /\ api.key \notin DOMAIN store <=> AgeAtCall(api.key) > ttl_hours
          /\ api.key \notin DOMAIN store => api.returned = None
          /\ AgeAtCall(api.key) = ttl_hours =>
                /\ api.returned = api.before[api.key].result
                /\ store = api.before
    /\ api.op = "cleanup" =>
          \A k \in DOMAIN api.before :
              /\ k \notin DOMAIN store <=>
                     k \notin DOMAIN StoreGetStore(api.before, k, api.at)
              /\ k \notin DOMAIN store <=> AgeAtCall(k) > ttl_hours
              /\ AgeAtCall(k) = ttl_hours => store[k] = api.before[k]

\* get has returned the result of an entry exactly TTL old and left it in
\* the store.
C37_Witness ==
    /\ api.op = "get"
    /\ api.key \in DOMAIN api.before
    /\ AgeAtCall(api.key) = ttl_hours
    /\ api.returned # None
    /\ api.key \in DOMAIN store

\* C36: a stored result of None is indistinguishable from an absent entry:
\* after store_result(None) should_execute() is still true and
\* get_cached_result() raises IdempotencyError; a scope entered while the
\* store holds None under the key is told to execute; and a wrapped function
\* that returned None is executed again by the next call with the same
\* arguments.
C36_NoneIsAbsent ==
    /\ \A s \in Scopes :
          /\ (ops[s].pc = "stored" /\ ops[s].result = None) =>
                /\ should_execute(ops[s])
                /\ ops[s].got_at = "stored" => ops[s].got = "raised"
                /\ LiveEntry(store, ops[s].key, clock) =>
                       store[ops[s].key].result = None
          /\ (ops[s].pc = "entered" /\ ops[s].entry_live /\ ops[s].entry_value = None) =>
                /\ should_execute(ops[s])
                /\ ops[s].got # "none" => ops[s].got = "raised"
    /\ (last_call.called /\ last_call.had_entry /\ last_call.entry_value = None) =>
          last_call.executed

\* A scope has stored None and its get_cached_result() has raised, while the
\* store holds the entry.
C36_Witness ==
    \E s \in Scopes :
        /\ ops[s].pc = "stored"
        /\ ops[s].result = None
        /\ ops[s].got = "raised"
        /\ ops[s].got_at = "stored"
        /\ LiveEntry(store, ops[s].key, clock)

\* What store.get gave the scope when it was entered was None.
GotNoneAtEntry(s) == ~ops[s].entry_live \/ ops[s].entry_value = None

\* Scope s is open and has not called store_result.
OpenUnstored(s) == ops[s].pc \in {"entered", "executed"}

\* C39: the answer of should_execute() is fixed by what the store held when
\* the scope was entered: two scopes for the same key that were both entered
\* before either called store_result both answer true, and a store_result
\* of the other scope, a delete or an expiry after entry does not change the
\* answer.
C39_AnswerFixedAtEntry ==
    \A s \in Scopes :
        /\ OpenUnstored(s) => (should_execute(ops[s]) <=> GotNoneAtEntry(s))
        /\ ops[s].pc = "cached" => ~GotNoneAtEntry(s)
        /\ \A t \in Scopes \ {s} :
              (/\ OpenUnstored(s) /\ ~ops[s].entry_live
               /\ ops[t].pc \in {"entered", "executed", "stored"} /\ ~ops[t].entry_live) =>
                  should_execute(ops[s])

\* Two scopes were entered while the store was empty; one has stored a
\* document since, and the other still answers true.
C39_Witness ==
    \E s \in Scopes, t \in Scopes :
        /\ s # t
        /\ ops[s].pc = "entered"
        /\ ~ops[s].entry_live
        /\ should_execute(ops[s])
        /\ ops[t].pc = "stored"
        /\ ~ops[t].entry_live
        /\ LiveEntry(store, OpKey, clock)
        /\ store[OpKey].result # None

\* C32: a result stored by a function decorated with idempotent(ttl_hours=h)
\* is returned from the cache by every repeat call made within h hours of
\* the execution that stored it, and is treated as expired after h hours,
\* for every h.
C32_DecoratorTtl ==
    [][WrappedCallStep =>
          LET k == last_call'.key
              h == last_call.ttl_hours
          IN  (k \in DOMAIN store /\ store[k].result # None) =>
                  /\ clock - store[k].stored_time <= h =>
                        /\ ~last_call'.executed
                        /\ last_call'.returned = store[k].result
                  /\ clock - store[k].stored_time > h => last_call'.executed]_vars


\* The request date of the model is the calendar day the clock starts in
\* (hours 0 to 23); the table the ECB publishes for that day.
PublishedFor(date) == Published(0)

\* C34: ECBProvider.get_rate with a date resolves the rate from the table of
\* that date: the table stored under the cache key of date d is the table
\* the remote source publishes for d, not the table of another day.
C34_TableOfTheDate ==
    \A d \in Dates \ {NoDate} :
        (fx.provider.kind = "ecb" /\ CacheKey(d) \in DOMAIN fx.provider.cache) =>
            fx.provider.cache[CacheKey(d)].rates = PublishedFor(d)


----------------------------------------------------------------------------
(***************************************************************************)
(* Claims about dry-run mode, pagination and the CSV export                *)
(***************************************************************************)

\* The operations that create or change a sevDesk record.
WriteOperations ==
    {"create_contact", "create_invoice", "create_voucher", "upload_document",
     "book_invoice", "create_invoice_payment"}

\* C31: while settings.dry_run is true, no SevdeskClient operation that
\* creates or changes a sevDesk record sends a write request (POST or PUT).
C31_DryRunSendsNoWrite ==
    (sev.call.op \in WriteOperations /\ sev.call.dry_run) =>
        \A i \in 1..Len(sev.call.requests) :
            sev.call.requests[i].method \notin {"POST", "PUT"}


\* C33: paginate_all called with max_results = m (m > 0) returns at most m
\* results, for every batch_size and every sequence of page sizes returned
\* by the fetch function; pages are requested one at a time at offsets 0,
\* batch_size, 2*batch_size, ...
C33_AtMostMaxResults ==
    /\ (pg.pc = "returned" /\ pg.max_results > 0) => pg.returned <= pg.max_results
    /\ \A i \in 1..Len(pg.fetched) :
          /\ pg.fetched[i].offset = (i - 1) * pg.batch_size
          /\ pg.fetched[i].limit = pg.batch_size


\* C35: in export_invoices a transaction (or shipping) price given as
\* {amount, divisor} is exported with gross amount amount/divisor (amount
\* 1990 with divisor 100 is 19.90, amount 495 with divisor 100 is 4.95), and
\* each exported row satisfies net = gross - tax.
C35_GrossIsAmountByDivisor ==
    \A i \in 1..Len(csv.rows) :
        LET row == csv.rows[i]
        IN  /\ row.Brutto = format_decimal(GrossByDivisor(row.price))
            /\ row.Netto = row.Brutto - row.Steuer

====
